---- MODULE Spec2Model ----
(***************************************************************************)
(* Freshwater Vault, document processing module (src/src/js/docs.js).      *)
(*                                                                         *)
(* JavaScript strings are modelled as sequences of one-character strings,  *)
(* JavaScript values as records [t |-> type, v |-> characters].            *)
(***************************************************************************)
EXTENDS Integers, Sequences, FiniteSets, TLC

(* ------------------------------------------------------------------ *)
(* JavaScript values                                                   *)
(* ------------------------------------------------------------------ *)

JsNull == [t |-> "null", v |-> <<>>]

JsUndefined == [t |-> "undefined", v |-> <<>>]

JsString(s) == [t |-> "string", v |-> s]

\* ToBoolean: what `x || y`, `x && y` and `if (x)` test.
Truthy(x) ==
  CASE x.t = "string"  -> x.v # <<>>
    [] x.t = "number"  -> x.v \notin {<<"0">>, <<"N", "a", "N">>}
    [] x.t = "boolean" -> x.v = <<"t", "r", "u", "e">>
    [] x.t \in {"object", "array"} -> TRUE
    [] OTHER -> FALSE

(* ------------------------------------------------------------------ *)
(* Characters and the string methods the module uses                   *)
(* ------------------------------------------------------------------ *)

AsciiUpper == <<"A", "B", "C", "D", "E", "F", "G", "H", "I", "J", "K", "L", "M",
                "N", "O", "P", "Q", "R", "S", "T", "U", "V", "W", "X", "Y", "Z">>

AsciiLower == <<"a", "b", "c", "d", "e", "f", "g", "h", "i", "j", "k", "l", "m",
                "n", "o", "p", "q", "r", "s", "t", "u", "v", "w", "x", "y", "z">>

Range(f) == {f[i] : i \in DOMAIN f}

IsUpper(c) == c \in Range(AsciiUpper)

IsLower(c) == c \in Range(AsciiLower)

IsDigit(c) == c \in {"0", "1", "2", "3", "4", "5", "6", "7", "8", "9"}

\* \s of a regular expression, and what trim() strips ("U+00A0": no-break space).
IsSpace(c) == c \in {" ", "\t", "\n", "\r", "\f", "U+00A0"}

\* \w of a regular expression.
IsWordChar(c) == IsUpper(c) \/ IsLower(c) \/ IsDigit(c) \/ c = "_"

\* String.prototype.toLowerCase on one character. Characters outside ASCII are
\* written by code point: U+00C9 (E acute) / U+00E9 (e acute), U+212A (Kelvin sign).
LowerChar(c) ==
  IF IsUpper(c) THEN AsciiLower[CHOOSE i \in 1..26 : AsciiUpper[i] = c]
  ELSE IF c = "U+00C9" THEN "U+00E9"
  ELSE IF c = "U+212A" THEN "k"
  ELSE c

\* String.prototype.toUpperCase on one character.
UpperChar(c) ==
  IF IsLower(c) THEN AsciiUpper[CHOOSE i \in 1..26 : AsciiLower[i] = c]
  ELSE IF c = "U+00E9" THEN "U+00C9"
  ELSE c

ToLowerCase(s) == [i \in 1..Len(s) |-> LowerChar(s[i])]

ToUpperCase(s) == [i \in 1..Len(s) |-> UpperChar(s[i])]

RECURSIVE TrimStart(_)
TrimStart(s) == IF s # <<>> /\ IsSpace(Head(s)) THEN TrimStart(Tail(s)) ELSE s

RECURSIVE TrimEnd(_)
TrimEnd(s) ==
  IF s # <<>> /\ IsSpace(s[Len(s)]) THEN TrimEnd(SubSeq(s, 1, Len(s) - 1)) ELSE s

\* String.prototype.trim
Trim(s) == TrimEnd(TrimStart(s))

(* ------------------------------------------------------------------ *)
(* normalize                                                           *)
(* ------------------------------------------------------------------ *)

\* .replace(/[^a-z0-9\s]/g, ' ')
ReplaceNonAlnum(s) ==
  [i \in 1..Len(s) |-> IF IsLower(s[i]) \/ IsDigit(s[i]) \/ IsSpace(s[i]) THEN s[i] ELSE " "]

\* A character of the string, marked with whether it is whitespace and whether it
\* is the first of its run of whitespace.
KeptByCollapse(m) == ~m.space \/ m.first

\* .replace(/\s+/g, ' '): every run of whitespace becomes one space.
CollapseSpace(s) ==
  LET marked == [i \in 1..Len(s) |->
                   [c |-> s[i], space |-> IsSpace(s[i]),
                    first |-> i = 1 \/ ~IsSpace(s[i - 1])]]
      kept == SelectSeq(marked, KeptByCollapse)
  IN [i \in 1..Len(kept) |-> IF kept[i].space THEN " " ELSE kept[i].c]

\* normalize with the two replacements swapped: whitespace collapsed first.
NormalizeCollapseFirst(q) ==
  LET s == IF Truthy(q) THEN q ELSE JsString(<<>>)
  IN IF s.t # "string"
     THEN [threw |-> TRUE, val |-> <<>>]
     ELSE [threw |-> FALSE,
           val |-> Trim(ReplaceNonAlnum(CollapseSpace(ToLowerCase(s.v))))]

\* normalize without toLowerCase.
NormalizeKeepCase(q) ==
  LET s == IF Truthy(q) THEN q ELSE JsString(<<>>)
  IN IF s.t # "string"
     THEN [threw |-> TRUE, val |-> <<>>]
     ELSE [threw |-> FALSE, val |-> Trim(CollapseSpace(ReplaceNonAlnum(s.v)))]

\* normalize without the (q || '') guard.
NormalizeUnguarded(q) ==
  IF q.t # "string"
  THEN [threw |-> TRUE, val |-> <<>>]
  ELSE [threw |-> FALSE,
        val |-> Trim(CollapseSpace(ReplaceNonAlnum(ToLowerCase(q.v))))]

\* normalize(q): the returned string, or threw when a TypeError escapes.
normalize(q) ==
  LET s == IF Truthy(q) THEN q ELSE JsString(<<>>)
  IN IF s.t # "string"
     THEN [threw |-> TRUE, val |-> <<>>]
     ELSE [threw |-> FALSE,
           val |-> Trim(CollapseSpace(ReplaceNonAlnum(ToLowerCase(s.v))))]

(* ------------------------------------------------------------------ *)
(* parseAgreement                                                      *)
(* ------------------------------------------------------------------ *)

INTRODUCTION == <<"I", "N", "T", "R", "O", "D", "U", "C", "T", "I", "O", "N">>

AGREEMENT == <<"A", "G", "R", "E", "E", "M", "E", "N", "T">>

ARTICLE == <<"A", "R", "T", "I", "C", "L", "E">>

SECTION == <<"S", "E", "C", "T", "I", "O", "N">>

\* .split(/\r?\n/): cur is the line read so far.
RECURSIVE SplitLines(_, _)
SplitLines(s, cur) ==
  IF s = <<>> THEN <<cur>>
  ELSE IF Head(s) = "\n"
       THEN LET line == IF cur # <<>> /\ cur[Len(cur)] = "\r"
                        THEN SubSeq(cur, 1, Len(cur) - 1) ELSE cur
            IN <<line>> \o SplitLines(Tail(s), <<>>)
       ELSE SplitLines(Tail(s), Append(cur, Head(s)))

\* /^(ARTICLE|SECTION)\b/i
MatchesArticleSection(s) ==
  /\ Len(s) >= 7
  /\ ToUpperCase(SubSeq(s, 1, 7)) \in {ARTICLE, SECTION}
  /\ Len(s) = 7 \/ ~IsWordChar(s[8])

\* The end of the longest prefix of s from position i on that matches \d+ ; i - 1 when none.
RECURSIVE SkipDigits(_, _)
SkipDigits(s, i) ==
  IF i <= Len(s) /\ IsDigit(s[i]) THEN SkipDigits(s, i + 1) ELSE i - 1

\* The end of the longest match of (\.\d+)* that starts right after position i.
RECURSIVE SkipOutline(_, _)
SkipOutline(s, i) ==
  IF i + 2 <= Len(s) /\ s[i + 1] = "." /\ IsDigit(s[i + 2])
  THEN SkipOutline(s, SkipDigits(s, i + 2))
  ELSE i

\* /^\d+(\.\d+)*\s+/
MatchesNumericOutline(s) ==
  LET d == SkipDigits(s, 1)
  IN /\ d >= 1
     /\ LET e == SkipOutline(s, d)
        IN e + 1 <= Len(s) /\ IsSpace(s[e + 1])

\* [A-Z0-9\s\-:&]
IsCapsBodyChar(c) == IsUpper(c) \/ IsDigit(c) \/ IsSpace(c) \/ c \in {"-", ":", "&"}

\* The number of characters of s from position i on that [A-Z0-9\s\-:&]{..,max} takes.
RECURSIVE CountCapsBody(_, _, _)
CountCapsBody(s, i, max) ==
  IF max > 0 /\ i <= Len(s) /\ IsCapsBodyChar(s[i])
  THEN 1 + CountCapsBody(s, i + 1, max - 1)
  ELSE 0

\* The all-caps rule with the quantifier {8,69}: at most 70 characters in all.
MatchesAllCapsUpTo70(s) ==
  /\ s # <<>>
  /\ IsUpper(s[1]) \/ IsDigit(s[1])
  /\ LET n == CountCapsBody(s, 2, 69)
     IN n >= 8 /\ 1 + n = Len(s)
  /\ s = ToUpperCase(s)

\* /^[A-Z0-9][A-Z0-9\s\-:&]{8,70}$/.test(s) && s === s.toUpperCase()
MatchesAllCaps(s) ==
  /\ s # <<>>
  /\ IsUpper(s[1]) \/ IsDigit(s[1])
  /\ LET n == CountCapsBody(s, 2, 70)
     IN n >= 8 /\ 1 + n = Len(s)
  /\ s = ToUpperCase(s)

\* isHeading(t), t a string
isHeading(t) ==
  LET s == Trim(t)
  IN IF s = <<>> THEN FALSE
     ELSE IF MatchesArticleSection(s) THEN TRUE
     ELSE IF MatchesNumericOutline(s) THEN TRUE
     ELSE IF MatchesAllCaps(s) THEN TRUE
     ELSE FALSE

\* The push without its test: sections with a blank body are kept.
PushAlways(chunks, cur) == Append(chunks, cur)

\* if (cur.text.trim()) chunks.push(cur)
PushIfBody(chunks, cur) == IF Trim(cur.text) # <<>> THEN Append(chunks, cur) ELSE chunks

\* The line assigned (=) instead of appended (+=).
AppendLineOverwrite(cur, line) == [cur EXCEPT !.text = line \o <<"\n">>]

\* cur.text += line + '\n'
AppendLine(cur, line) == [cur EXCEPT !.text = @ \o line \o <<"\n">>]

\* The loop of lines 178-186 and the push of line 187.
RECURSIVE ParseLines(_, _, _)
ParseLines(lines, chunks, cur) ==
  IF lines = <<>> THEN PushIfBody(chunks, cur)
  ELSE LET line == Head(lines)
           t == Trim(line)
       IN IF isHeading(t)
          THEN ParseLines(Tail(lines), PushIfBody(chunks, cur), [heading |-> t, text |-> <<>>])
          ELSE ParseLines(Tail(lines), chunks, AppendLine(cur, line))

\* parseAgreement without the fallback section.
ParseAgreementNoFallback(text) ==
  LET src == IF Truthy(text) THEN text.v ELSE <<>>
  IN ParseLines(SplitLines(src, <<>>), <<>>, [heading |-> INTRODUCTION, text |-> <<>>])

\* parseAgreement with AGREEMENT as the heading of the text before the first
\* heading line.
ParseAgreementLeadAgreement(text) ==
  LET src == IF Truthy(text) THEN text.v ELSE <<>>
      chunks == ParseLines(SplitLines(src, <<>>), <<>>, [heading |-> AGREEMENT, text |-> <<>>])
  IN IF chunks # <<>> THEN chunks ELSE <<[heading |-> AGREEMENT, text |-> src]>>

\* parseAgreement(text), text a string, null or undefined
parseAgreement(text) ==
  LET src == IF Truthy(text) THEN text.v ELSE <<>>
      chunks == ParseLines(SplitLines(src, <<>>), <<>>, [heading |-> INTRODUCTION, text |-> <<>>])
  IN IF chunks # <<>> THEN chunks ELSE <<[heading |-> AGREEMENT, text |-> src]>>

(* ------------------------------------------------------------------ *)
(* Bounds of the model                                                 *)
(* ------------------------------------------------------------------ *)

\* Number of clock advances in one behaviour of the loader.
MaxTicks == 2

\* Longest string handed to normalize.
MaxNormLen == 4

\* Longest document handed to parseAgreement, of those drawn character by character.
MaxDocLen == 5

\* Most lines of a document handed to parseAgreement, of those drawn line by line.
MaxDocLines == 4

\* Longest run of the fill character in a line handed to isHeading.
MaxFill == 71

\* All strings over chars of length at most n.
Strings(chars, n) == UNION {[1..k -> chars] : k \in 0..n}

\* c repeated n times.
Fill(c, n) == [i \in 1..n |-> c]

(* ------------------------------------------------------------------ *)
(* loadAgreement: the document cache in localStorage                   *)
(* ------------------------------------------------------------------ *)

CACHE_DURATION == 60 * 60 * 1000

CACHE_KEY == "agreement_cache"

CACHE_TIME_KEY == "agreement_cache_time"

LoadErrorText == <<"Unable to load agreement. Please contact support.">>

\* The concurrent callers of loadAgreement (each an async invocation).
Callers == {1, 2}

\* Bodies the document source can answer with (the empty body included).
DocTexts == {<<>>, <<"a">>, <<"b">>}

\* Amounts by which the clock advances between two steps.
TickSteps == {1, CACHE_DURATION - 1, CACHE_DURATION}

Digit(d) == CASE d = 0 -> "0" [] d = 1 -> "1" [] d = 2 -> "2" [] d = 3 -> "3"
              [] d = 4 -> "4" [] d = 5 -> "5" [] d = 6 -> "6" [] d = 7 -> "7"
              [] d = 8 -> "8" [] d = 9 -> "9"

DigitValue(c) == CHOOSE d \in 0..9 : Digit(d) = c

\* Number.prototype.toString() of a non-negative integer.
RECURSIVE NumToString(_)
NumToString(n) ==
  IF n < 10 THEN <<Digit(n)>> ELSE Append(NumToString(n \div 10), Digit(n % 10))

\* parseInt of a string: the value of its leading digits, NaN when there is none.
RECURSIVE ParseDigits(_, _)
ParseDigits(s, acc) ==
  IF s = <<>> \/ ~IsDigit(Head(s)) THEN acc
  ELSE ParseDigits(Tail(s), 10 * acc + DigitValue(Head(s)))

ParseInt(s) ==
  IF s = <<>> \/ ~IsDigit(Head(s)) THEN [nan |-> TRUE, n |-> 0]
  ELSE [nan |-> FALSE, n |-> ParseDigits(s, 0)]

(* ------------------------------------------------------------------ *)
(* expandTokens                                                        *)
(* ------------------------------------------------------------------ *)

\* Object.entries(SYNONYMS): the concept groups in the order they are written.
SYNONYMS ==
  <<
    [k |-> <<"c", "a", "n", "c", "e", "l">>,
     arr |-> <<<<"c", "a", "n", "c", "e", "l", "l", "a", "t", "i", "o", "n">>,
              <<"t", "e", "r", "m", "i", "n", "a", "t", "e">>,
              <<"t", "e", "r", "m", "i", "n", "a", "t", "i", "o", "n">>,
              <<"q", "u", "i", "t">>,
              <<"e", "n", "d">>,
              <<"r", "e", "f", "u", "n", "d">>,
              <<"d", "e", "p", "o", "s", "i", "t">>>>],
    [k |-> <<"p", "a", "y", "m", "e", "n", "t">>,
     arr |-> <<<<"p", "a", "y", "m", "e", "n", "t", "s">>,
              <<"i", "n", "v", "o", "i", "c", "e">>,
              <<"b", "i", "l", "l", "i", "n", "g">>,
              <<"n", "e", "t">>,
              <<"f", "e", "e">>,
              <<"c", "h", "a", "r", "g", "e">>,
              <<"c", "o", "s", "t">>,
              <<"p", "r", "i", "c", "e">>>>],
    [k |-> <<"l", "a", "t", "e">>,
     arr |-> <<<<"l", "a", "t", "e">>,
              <<"o", "v", "e", "r", "d", "u", "e">>,
              <<"p", "a", "s", "t">>,
              <<"d", "u", "e">>,
              <<"i", "n", "t", "e", "r", "e", "s", "t">>,
              <<"f", "i", "n", "a", "n", "c", "e">>,
              <<"c", "h", "a", "r", "g", "e">>,
              <<"a", "p", "r">>,
              <<"p", "e", "n", "a", "l", "t", "y">>>>],
    [k |-> <<"l", "i", "a", "b", "i", "l", "i", "t", "y">>,
     arr |-> <<<<"l", "i", "a", "b", "i", "l", "i", "t", "y">>,
              <<"d", "a", "m", "a", "g", "e">>,
              <<"d", "a", "m", "a", "g", "e", "s">>,
              <<"r", "e", "s", "p", "o", "n", "s", "i", "b", "l", "e">>,
              <<"r", "e", "s", "p", "o", "n", "s", "i", "b", "i", "l", "i", "t", "y">>,
              <<"i", "n", "j", "u", "r", "y">>,
              <<"s", "l", "i", "p">>,
              <<"f", "a", "l", "l">>,
              <<"w", "a", "r", "r", "a", "n", "t", "y">>,
              <<"w", "a", "r", "r", "a", "n", "t", "i", "e", "s">>,
              <<"i", "n", "d", "e", "m", "n", "i", "f">>>>],
    [k |-> <<"d", "i", "s", "p", "u", "t", "e">>,
     arr |-> <<<<"d", "i", "s", "p", "u", "t", "e">>,
              <<"a", "r", "b", "i", "t", "r", "a", "t", "i", "o", "n">>,
              <<"c", "o", "u", "r", "t">>,
              <<"l", "a", "w", "s", "u", "i", "t">>,
              <<"s", "u", "e">>,
              <<"v", "e", "n", "u", "e">>,
              <<"j", "u", "r", "y">>,
              <<"m", "e", "d", "i", "a", "t", "i", "o", "n">>>>],
    [k |-> <<"s", "n", "o", "w">>,
     arr |-> <<<<"s", "n", "o", "w">>,
              <<"i", "c", "e">>,
              <<"p", "l", "o", "w">>,
              <<"p", "l", "o", "w", "i", "n", "g">>,
              <<"t", "r", "i", "g", "g", "e", "r">>,
              <<"a", "c", "c", "u", "m", "u", "l", "a", "t", "i", "o", "n">>,
              <<"s", "t", "o", "r", "m">>,
              <<"b", "e", "r", "m">>,
              <<"s", "a", "l", "t">>,
              <<"d", "e", "i", "c", "e">>>>],
    [k |-> <<"s", "c", "o", "p", "e">>,
     arr |-> <<<<"s", "c", "o", "p", "e">>,
              <<"w", "o", "r", "k">>,
              <<"c", "h", "a", "n", "g", "e">>,
              <<"o", "r", "d", "e", "r">>,
              <<"e", "x", "t", "r", "a", "s">>,
              <<"a", "d", "d", "i", "t", "i", "o", "n", "a", "l">>,
              <<"a", "d", "d", "e", "n", "d", "u", "m">>>>],
    [k |-> <<"m", "o", "w", "i", "n", "g">>,
     arr |-> <<<<"m", "o", "w", "i", "n", "g">>,
              <<"m", "o", "w">>,
              <<"l", "a", "w", "n">>,
              <<"g", "r", "a", "s", "s">>,
              <<"t", "u", "r", "f">>,
              <<"c", "u", "t">>,
              <<"t", "r", "i", "m">>,
              <<"e", "d", "g", "e">>>>],
    [k |-> <<"s", "e", "a", "s", "o", "n">>,
     arr |-> <<<<"s", "e", "a", "s", "o", "n">>,
              <<"t", "e", "r", "m">>,
              <<"d", "u", "r", "a", "t", "i", "o", "n">>,
              <<"l", "e", "n", "g", "t", "h">>,
              <<"p", "e", "r", "i", "o", "d">>,
              <<"y", "e", "a", "r">>,
              <<"a", "n", "n", "u", "a", "l">>>>]
  >>

\* The cap of .slice(0, 30) and the length bound of t.length >= 3.
MaxTokens == 30

MinTokenLen == 3

\* q.split(' '): cur is the piece read so far.
RECURSIVE SplitSpace(_, _)
SplitSpace(s, cur) ==
  IF s = <<>> THEN <<cur>>
  ELSE IF Head(s) = " " THEN <<cur>> \o SplitSpace(Tail(s), <<>>)
  ELSE SplitSpace(Tail(s), Append(cur, Head(s)))

NonEmptyString(w) == w # <<>>

\* .filter(Boolean) on an array of strings
FilterBoolean(ws) == SelectSeq(ws, NonEmptyString)

\* The elements xs offered to a Set that holds `set`, each marked fresh when the
\* Set takes it in: it is not in the Set yet and was not offered before.
Offered(set, xs) ==
  [i \in 1..Len(xs) |->
     [x |-> xs[i],
      fresh |-> xs[i] \notin Range(set) /\ \A j \in 1..(i - 1) : xs[j] # xs[i]]]

IsTakenIn(m) == m.fresh

\* set.add(x) for every x of xs, in order; a Set iterates in insertion order, so it
\* is a sequence without repetition.
SetAddAll(set, xs) ==
  LET taken == SelectSeq(Offered(set, xs), IsTakenIn)
  IN set \o [i \in 1..Len(taken) |-> taken[i].x]

\* The test of line 204 without arr.includes(w): only the concept key triggers.
TriggersKeyOnly(raw, k, arr) == \E i \in DOMAIN raw : raw[i] = k

\* Some w of raw has w === k || arr.includes(w).
Triggers(raw, k, arr) == \E i \in DOMAIN raw : raw[i] = k \/ raw[i] \in Range(arr)

\* The loop of lines 202-209; adding a group a second time changes nothing.
RECURSIVE ExpandGroups(_, _, _)
ExpandGroups(set, raw, entries) ==
  IF entries = <<>> THEN set
  ELSE LET e == Head(entries)
           added == IF Triggers(raw, e.k, e.arr)
                    THEN SetAddAll(set, <<e.k>> \o e.arr)
                    ELSE set
       IN ExpandGroups(added, raw, Tail(entries))

LongEnough(t) == Len(t) >= MinTokenLen

\* Array.prototype.slice(0, end) and String.prototype.slice(0, end) with an
\* integer end: a negative end counts from the back.
SliceOneMore(a, end) ==
  LET e == IF end < 0 THEN Len(a) + end + 1 ELSE end + 1
  IN SubSeq(a, 1, IF e > Len(a) THEN Len(a) ELSE e)

Slice(a, end) ==
  LET e == IF end < 0 THEN Len(a) + end ELSE end
  IN SubSeq(a, 1, IF e > Len(a) THEN Len(a) ELSE e)

\* expandTokens without .slice(0, 30).
ExpandTokensNoCap(question) ==
  LET q == normalize(question)
  IN IF q.threw THEN [threw |-> TRUE, val |-> <<>>]
     ELSE LET raw == FilterBoolean(SplitSpace(q.val, <<>>))
              set == ExpandGroups(SetAddAll(<<>>, raw), raw, SYNONYMS)
          IN [threw |-> FALSE, val |-> SelectSeq(set, LongEnough)]

\* expandTokens(question): the returned array, or threw when normalize throws.
expandTokens(question) ==
  LET q == normalize(question)
  IN IF q.threw THEN [threw |-> TRUE, val |-> <<>>]
     ELSE LET raw == FilterBoolean(SplitSpace(q.val, <<>>))
              set == ExpandGroups(SetAddAll(<<>>, raw), raw, SYNONYMS)
          IN [threw |-> FALSE, val |-> Slice(SelectSeq(set, LongEnough), MaxTokens)]

(* ------------------------------------------------------------------ *)
(* bestMatches                                                         *)
(* ------------------------------------------------------------------ *)

\* Number values: the decimal digits of a non-negative integer.
JsNumber(n) == [t |-> "number", v |-> NumToString(n)]

\* The default of the parameter top.
DefaultTop == 3

\* \b before position i of hay (i = Len(hay) + 1: at the end): exactly one of the
\* characters on its two sides is a \w character.
IsWordBoundary(hay, i) ==
  LET before == i > 1 /\ IsWordChar(hay[i - 1])
      after == i <= Len(hay) /\ IsWordChar(hay[i])
  IN before # after

\* The token found at position i, with no \b on either side of the pattern.
MatchesAtNoBoundary(hay, t, i) ==
  /\ i + Len(t) - 1 <= Len(hay)
  /\ SubSeq(hay, i, i + Len(t) - 1) = t

\* new RegExp('\\b' + safe + '\\b') matches at position i of hay. The tokens hold
\* only a-z and 0-9, which the escaping of line 232 leaves as they are.
MatchesAt(hay, t, i) ==
  /\ i + Len(t) - 1 <= Len(hay)
  /\ SubSeq(hay, i, i + Len(t) - 1) = t
  /\ IsWordBoundary(hay, i)
  /\ IsWordBoundary(hay, i + Len(t))

\* hay.match(re) with the g flag, from position i on: the number of matches, each
\* search starting where the match before it ended.
RECURSIVE CountMatches(_, _, _)
CountMatches(hay, t, i) ==
  IF t = <<>> \/ i > Len(hay) THEN 0
  ELSE IF MatchesAt(hay, t, i) THEN 1 + CountMatches(hay, t, i + Len(t))
  ELSE CountMatches(hay, t, i + 1)

\* The loop of lines 231-236 over the tokens.
RECURSIVE SumMatches(_, _)
SumMatches(hay, tokens) ==
  IF tokens = <<>> THEN 0
  ELSE CountMatches(hay, Head(tokens), 1) + SumMatches(hay, Tail(tokens))

\* (c.heading + '\n' + c.text).toLowerCase()
Hay(c) == ToLowerCase(c.heading \o <<"\n">> \o c.text)

\* .map((c) => ({ ...c, score }))
Scored(chunks, tokens) ==
  [i \in 1..Len(chunks) |->
     [heading |-> chunks[i].heading, text |-> chunks[i].text,
      score |-> SumMatches(Hay(chunks[i]), tokens)]]

\* The filter without its test: sections of score 0 are kept.
AnyScore(x) == TRUE

\* .filter((x) => x.score > 0)
HasScore(x) == x.score > 0

\* x put before the entries of its own score.
RECURSIVE InsertBeforeTies(_, _)
InsertBeforeTies(sorted, x) ==
  IF sorted = <<>> THEN <<x>>
  ELSE IF Head(sorted).score > x.score
       THEN <<Head(sorted)>> \o InsertBeforeTies(Tail(sorted), x)
       ELSE <<x>> \o sorted

\* x put into a list sorted by (a, b) => b.score - a.score, behind the entries of
\* its own score: Array.prototype.sort is stable.
RECURSIVE InsertByScore(_, _)
InsertByScore(sorted, x) ==
  IF sorted = <<>> THEN <<x>>
  ELSE IF Head(sorted).score >= x.score
       THEN <<Head(sorted)>> \o InsertByScore(Tail(sorted), x)
       ELSE <<x>> \o sorted

\* .sort((a, b) => b.score - a.score)
RECURSIVE SortByScore(_, _)
SortByScore(xs, sorted) ==
  IF xs = <<>> THEN sorted ELSE SortByScore(Tail(xs), InsertByScore(sorted, Head(xs)))

\* The local `scored` of lines 227-240.
Ranked(chunks, tokens) == SortByScore(SelectSeq(Scored(chunks, tokens), HasScore), <<>>)

\* The value of the parameter top: 3 when the argument is omitted.
TopOf(top) == IF top = JsUndefined THEN DefaultTop ELSE ParseInt(top.v).n

\* bestMatches(agreementText, question, top)
bestMatches(agreementText, question, top) ==
  LET tokens == expandTokens(question)
  IN IF tokens.threw THEN [threw |-> TRUE, val |-> <<>>]
     ELSE [threw |-> FALSE,
           val |-> Slice(Ranked(parseAgreement(agreementText), tokens.val), TopOf(top))]

(* ------------------------------------------------------------------ *)
(* excerpt                                                             *)
(* ------------------------------------------------------------------ *)

\* The default of the parameter limit.
DefaultLimit == 900

Ellipsis == <<".", ".", ".">>

\* The value of the parameter limit: 900 when the argument is omitted.
LimitOf(limit) == IF limit = JsUndefined THEN DefaultLimit ELSE ParseInt(limit.v).n

\* excerpt with s.length >= limit as its test.
ExcerptCutAtLimit(text, limit) ==
  LET src == IF Truthy(text) THEN text ELSE JsString(<<>>)
  IN IF src.t # "string" THEN [threw |-> TRUE, val |-> <<>>]
     ELSE LET s == CollapseSpace(Trim(src.v))
          IN [threw |-> FALSE,
              val |-> IF Len(s) >= LimitOf(limit)
                      THEN Slice(s, LimitOf(limit)) \o Ellipsis ELSE s]

\* excerpt(text, limit): the returned string, or threw when a TypeError escapes.
excerpt(text, limit) ==
  LET src == IF Truthy(text) THEN text ELSE JsString(<<>>)
  IN IF src.t # "string" THEN [threw |-> TRUE, val |-> <<>>]
     ELSE LET s == CollapseSpace(Trim(src.v))
          IN [threw |-> FALSE,
              val |-> IF Len(s) > LimitOf(limit)
                      THEN Slice(s, LimitOf(limit)) \o Ellipsis ELSE s]

(* ------------------------------------------------------------------ *)
(* The ask function (src/netlify/functions/analytics.js, lines 128 on) *)
(* ------------------------------------------------------------------ *)

RATE_LIMIT == 20

RATE_WINDOW == 60 * 60 * 1000

CACHE_TTL == 60 * 60 * 1000

\* The caller identities getClientIP tells apart.
Ips == {"a", "b"}

\* rateLimitMap.get(ip) of an identity without a record.
NoRecord == [windowStart |-> 0, count |-> 0]

\* Math.ceil(n / d) for d > 0.
Ceil(n, d) == -((-n) \div d)

\* checkRateLimit with record.count > RATE_LIMIT as its test.
CheckRateLimitOneMore(map, ip, t) ==
  LET record == map[ip]
  IN IF record = NoRecord \/ t - record.windowStart > RATE_WINDOW
     THEN [map |-> [map EXCEPT ![ip] = [windowStart |-> t, count |-> 1]],
           allowed |-> TRUE, remaining |-> RATE_LIMIT - 1, resetIn |-> JsUndefined]
     ELSE IF record.count > RATE_LIMIT
     THEN [map |-> map, allowed |-> FALSE, remaining |-> 0,
           resetIn |-> JsNumber(Ceil(record.windowStart + RATE_WINDOW - t, 1000))]
     ELSE [map |-> [map EXCEPT ![ip].count = @ + 1],
           allowed |-> TRUE, remaining |-> RATE_LIMIT - (record.count + 1),
           resetIn |-> JsUndefined]

\* checkRateLimit without record.count++.
CheckRateLimitNoCount(map, ip, t) ==
  LET record == map[ip]
  IN IF record = NoRecord \/ t - record.windowStart > RATE_WINDOW
     THEN [map |-> [map EXCEPT ![ip] = [windowStart |-> t, count |-> 1]],
           allowed |-> TRUE, remaining |-> RATE_LIMIT - 1, resetIn |-> JsUndefined]
     ELSE IF record.count >= RATE_LIMIT
     THEN [map |-> map, allowed |-> FALSE, remaining |-> 0,
           resetIn |-> JsNumber(Ceil(record.windowStart + RATE_WINDOW - t, 1000))]
     ELSE [map |-> map,
           allowed |-> TRUE, remaining |-> RATE_LIMIT - record.count,
           resetIn |-> JsUndefined]

\* checkRateLimit with a rejection that starts the window of the identity anew.
CheckRateLimitRestarts(map, ip, t) ==
  LET record == map[ip]
  IN IF record = NoRecord \/ t - record.windowStart > RATE_WINDOW
     THEN [map |-> [map EXCEPT ![ip] = [windowStart |-> t, count |-> 1]],
           allowed |-> TRUE, remaining |-> RATE_LIMIT - 1, resetIn |-> JsUndefined]
     ELSE IF record.count >= RATE_LIMIT
     THEN [map |-> [map EXCEPT ![ip].windowStart = t], allowed |-> FALSE, remaining |-> 0,
           resetIn |-> JsNumber(Ceil(record.windowStart + RATE_WINDOW - t, 1000))]
     ELSE [map |-> [map EXCEPT ![ip].count = @ + 1],
           allowed |-> TRUE, remaining |-> RATE_LIMIT - (record.count + 1),
           resetIn |-> JsUndefined]

\* checkRateLimit(ip) called at time t with the rateLimitMap map: the returned
\* object (allowed, remaining, resetIn) and the map afterwards.
checkRateLimit(map, ip, t) ==
  LET record == map[ip]
  IN IF record = NoRecord \/ t - record.windowStart > RATE_WINDOW
     THEN [map |-> [map EXCEPT ![ip] = [windowStart |-> t, count |-> 1]],
           allowed |-> TRUE, remaining |-> RATE_LIMIT - 1, resetIn |-> JsUndefined]
     ELSE IF record.count >= RATE_LIMIT
     THEN [map |-> map, allowed |-> FALSE, remaining |-> 0,
           resetIn |-> JsNumber(Ceil(record.windowStart + RATE_WINDOW - t, 1000))]
     ELSE [map |-> [map EXCEPT ![ip].count = @ + 1],
           allowed |-> TRUE, remaining |-> RATE_LIMIT - (record.count + 1),
           resetIn |-> JsUndefined]


\* Array.prototype.join of a list of strings.
RECURSIVE Join(_, _)
Join(ls, sep) ==
  IF ls = <<>> THEN <<>>
  ELSE IF Len(ls) = 1 THEN Head(ls)
  ELSE Head(ls) \o sep \o Join(Tail(ls), sep)

\* getCacheKey (lines 163-167): the trimmed lower-case question, "::", and the
\* headings of the excerpts in their order, joined by "|".
getCacheKey(question, excerpts) ==
  LET normalized == Trim(ToLowerCase(question))
      excerptKey == Join([i \in 1..Len(excerpts) |-> excerpts[i].heading], <<"|">>)
  IN normalized \o <<":", ":">> \o excerptKey

(* ------------------------------------------------------------------ *)
(* The sliding-log limiters of the older ask functions                 *)
(* (src/freshwater_oldstyle_protected_ai_netlify/netlify/functions/    *)
(* ask.js, lines 115-126 and 206-227; src/unnamed/part_000, 66-87)     *)
(* ------------------------------------------------------------------ *)

\* ask.js, lines 118-119: 12 requests in 10 minutes.
windowMs == 10 * 60 * 1000

maxReq == 12

\* part_000, lines 68 and 76: 20 requests in an hour.
hourMs == 3600000

hourMaxReq == 20

\* The two limiters: the length of the window and the requests allowed in it.
Limiters ==
  {[name |-> "tenMinutes", windowMs |-> windowMs, maxReq |-> maxReq],
   [name |-> "hour", windowMs |-> hourMs, maxReq |-> hourMaxReq]}

\* The limiter that rejects only above the quota.
SlidingLogOneMore(list, t, lim) ==
  LET recent == SelectSeq(list, LAMBDA time : time > t - lim.windowMs)
  IN IF Len(recent) > lim.maxReq
     THEN [list |-> list, allowed |-> FALSE, statusCode |-> 429]
     ELSE [list |-> Append(recent, t), allowed |-> TRUE, statusCode |-> 0]

\* The limiter step of a request at time t, list being the stored list of the
\* identity: the times still in the window are kept; a full window rejects and
\* leaves the stored list as it is, otherwise t is added and the list stored.
slidingLog(list, t, lim) ==
  LET recent == SelectSeq(list, LAMBDA time : time > t - lim.windowMs)
  IN IF Len(recent) >= lim.maxReq
     THEN [list |-> list, allowed |-> FALSE, statusCode |-> 429]
     ELSE [list |-> Append(recent, t), allowed |-> TRUE, statusCode |-> 0]

(* ------------------------------------------------------------------ *)
(* The ask function: sanitizing and the response cache                 *)
(* (src/netlify/functions/analytics.js, lines 134-135 and 163-333)     *)
(* ------------------------------------------------------------------ *)

Least(S) == CHOOSE i \in S : \A j \in S : i <= j

\* str.replace(/<[^>]*>/g, ''): from the left, every "<" that has a ">" after it
\* is removed together with everything up to the first such ">".
RECURSIVE StripTags(_)
StripTags(s) ==
  LET closes == {i \in 1..Len(s) : s[i] = ">"}
      opens == {i \in 1..Len(s) : s[i] = "<" /\ \E q \in closes : q > i}
  IN IF opens = {} THEN s
     ELSE LET p == Least(opens)
              q == Least({c \in closes : c > p})
          IN SubSeq(s, 1, p - 1) \o StripTags(SubSeq(s, q + 1, Len(s)))

\* The longest string sanitizeInput returns.
SanitizedMax == 2000

\* sanitizeInput (lines 169-172).
sanitizeInput(str) ==
  IF str.t # "string" THEN <<>> ELSE Slice(StripTags(str.v), SanitizedMax)

\* x || ''
OrEmpty(x) == IF Truthy(x) THEN x ELSE JsString(<<>>)

\* Lines 228-231: the excerpts kept of a request, and the length their text is
\* cut to.
KeptExcerpts == 5

KeptText == 1500

\* Lines 228-231; reading a property of null or undefined throws.
cleanExcerpts(excerpts) ==
  LET kept == Slice(excerpts, KeptExcerpts)
  IN IF \E i \in 1..Len(kept) : kept[i] \in {JsNull, JsUndefined}
     THEN [threw |-> TRUE, val |-> <<>>]
     ELSE [threw |-> FALSE,
           val |-> [i \in 1..Len(kept) |->
                      [heading |-> sanitizeInput(OrEmpty(kept[i].heading)),
                       text |-> Slice(sanitizeInput(OrEmpty(kept[i].text)), KeptText)]]]

\* responseCache, a Map: its entries in the order their keys were first set.
CacheHas(cache, key) == \E i \in 1..Len(cache) : cache[i].key = key

CacheGet(cache, key) == cache[CHOOSE i \in 1..Len(cache) : cache[i].key = key]

\* The test of line 236 that serves an entry up to the end of the TTL.
CacheServesAtTtl(cache, key, t) ==
  CacheHas(cache, key) /\ t - CacheGet(cache, key).timestamp <= CACHE_TTL

\* Line 236: the cache has an entry of the key that is younger than the TTL.
CacheServes(cache, key, t) ==
  CacheHas(cache, key) /\ t - CacheGet(cache, key).timestamp < CACHE_TTL

\* Line 310.
CacheSet(cache, key, answer, t) ==
  LET entry == [key |-> key, answer |-> answer, timestamp |-> t]
  IN IF CacheHas(cache, key)
     THEN [i \in 1..Len(cache) |-> IF cache[i].key = key THEN entry ELSE cache[i]]
     ELSE Append(cache, entry)

\* The size of the cache above which a store cleans it.
CleanAbove == 100

\* The cleaning that also removes the entries that are exactly CACHE_TTL old.
CacheCleanAtTtl(cache, t) ==
  IF Len(cache) > CleanAbove
  THEN SelectSeq(cache, LAMBDA e : ~(t - e.timestamp >= CACHE_TTL))
  ELSE cache

\* Lines 313-318.
CacheClean(cache, t) ==
  IF Len(cache) > CleanAbove
  THEN SelectSeq(cache, LAMBDA e : ~(t - e.timestamp > CACHE_TTL))
  ELSE cache

(* ------------------------------------------------------------------ *)
(* Analytics: the event store of the analytics function                *)
(* (src/netlify/functions/analytics.js, lines 1-56) and the browser    *)
(* module that tracks events (src/unnamed/part_003)                    *)
(* ------------------------------------------------------------------ *)

MAX_EVENTS == 10000

\* The length sanitizeInput of the analytics function cuts a field to.
EventFieldMax == 500

\* An object literal: its properties <<key, value>> in the order they were set.
ObjHas(obj, key) == \E i \in 1..Len(obj) : obj[i][1] = key

ObjGet(obj, key) ==
  IF ObjHas(obj, key) THEN obj[CHOOSE i \in 1..Len(obj) : obj[i][1] = key][2]
  ELSE JsUndefined

ObjSet(obj, key, value) ==
  IF ObjHas(obj, key)
  THEN [i \in 1..Len(obj) |-> IF obj[i][1] = key THEN <<key, value>> ELSE obj[i]]
  ELSE Append(obj, <<key, value>>)

\* { ...obj, ...more }
RECURSIVE ObjSpread(_, _)
ObjSpread(obj, more) ==
  IF more = <<>> THEN obj
  ELSE ObjSpread(ObjSet(obj, Head(more)[1], Head(more)[2]), Tail(more))

\* JSON.parse(JSON.stringify(obj)) of an object whose values are strings, numbers
\* or undefined: the properties whose value is undefined are left out.
JsonRoundTrip(obj) == SelectSeq(obj, LAMBDA p : p[2] # JsUndefined)

\* part_003, lines 31-36: the payload of track(event, data).
Payload(event, data, sessionId, t) ==
  ObjSet(ObjSet(ObjSpread(<<<<"event", event>>>>, data), "sessionId", sessionId),
         "timestamp", JsNumber(t))

\* The array analyticsStore, written as its runs of equal events: each run is an
\* event and the number of times it stands there in a row; two runs next to each
\* other hold different events.
RECURSIVE RunsLen(_)
RunsLen(runs) == IF runs = <<>> THEN 0 ELSE Head(runs).count + RunsLen(Tail(runs))

\* array.push(item)
RunsPush(runs, item) ==
  IF runs # <<>> /\ runs[Len(runs)].item = item
  THEN [runs EXCEPT ![Len(runs)].count = @ + 1]
  ELSE Append(runs, [item |-> item, count |-> 1])

\* array.splice(0, n)
RECURSIVE RunsSplice(_, _)
RunsSplice(runs, n) ==
  IF n <= 0 \/ runs = <<>> THEN runs
  ELSE IF Head(runs).count <= n THEN RunsSplice(Tail(runs), n - Head(runs).count)
  ELSE <<[Head(runs) EXCEPT !.count = @ - n]>> \o Tail(runs)

\* The array of n times the item.
RunsOf(item, n) == IF n = 0 THEN <<>> ELSE <<[item |-> item, count |-> n]>>

\* The cap that removes the newest event.
CapEventsNewest(list, max) ==
  IF RunsLen(list) > max
  THEN (IF list[Len(list)].count = 1 THEN SubSeq(list, 1, Len(list) - 1)
        ELSE [list EXCEPT ![Len(list)].count = @ - 1])
  ELSE list

\* analytics.js, lines 44-46:
\* if (list.length > max) list.splice(0, list.length - max)
CapEvents(list, max) ==
  IF RunsLen(list) > max THEN RunsSplice(list, RunsLen(list) - max) ELSE list

\* analytics.js, lines 6-9.
sanitizeEvent(str) ==
  IF str.t # "string" THEN <<>> ELSE Slice(StripTags(str.v), EventFieldMax)

\* x || d
OrDefault(x, d) == IF Truthy(x) THEN x ELSE JsString(d)

UNKNOWN == <<"u", "n", "k", "n", "o", "w", "n">>

\* analytics.js, lines 28-39: the event made of the body of a POST at the time t,
\* the request carrying neither a user-agent nor an x-forwarded-for header.
ServerEvent(body, t) ==
  [event |-> sanitizeEvent(OrDefault(ObjGet(body, "event"), UNKNOWN)),
   sessionId |-> sanitizeEvent(OrDefault(ObjGet(body, "sessionId"), <<>>)),
   timestamp |-> t,
   path |-> sanitizeEvent(OrDefault(ObjGet(body, "path"), <<>>)),
   query |-> sanitizeEvent(OrDefault(ObjGet(body, "query"), <<>>)),
   mode |-> sanitizeEvent(OrDefault(ObjGet(body, "mode"), <<>>)),
   userAgent |-> <<>>,
   ip |-> UNKNOWN]

\* analytics.js, lines 41-46.
PushEvent(store, event) == CapEvents(RunsPush(store, event), MAX_EVENTS)

VARIABLES
  now,          \* Date.now()
  ticks,        \* clock advances so far
  localStorage, \* the two keys of the document cache
  pc,           \* where each loadAgreement call stands
  cached,       \* local `cached` of each call
  cachedTime,   \* local `cachedTime` of each call
  startedAt,    \* Date.now() as read by the freshness test of each call
  fetched,      \* calls of fetch() made by each call
  caught,       \* the failure each call's catch block caught, "none" if none
  result,       \* what each call resolved to
  nIn,          \* normalize: the argument
  nOut,         \* normalize: its result
  nAgain,       \* normalize: the result of normalizing nOut
  nPc,          \* normalize: "off", "ready", "once", "twice"
  pIn,          \* parseAgreement: the argument
  pOut,         \* parseAgreement: the returned chunks
  pPc,          \* parseAgreement: "off", "ready", "done"
  hIn,          \* isHeading: the line
  hOut,         \* isHeading: the answer for the trimmed line
  hPc           \* isHeading: "off", "ready", "done"

VARIABLES
  eIn,          \* expandTokens: the argument
  eOut,         \* expandTokens: its result
  ePc,          \* expandTokens: "off", "ready", "done"
  bText,        \* bestMatches: the argument agreementText
  bQuestion,    \* bestMatches: the argument question
  bTop,         \* bestMatches: the argument top (undefined when omitted)
  bTokens,      \* bestMatches: local `tokens`
  bMapped,      \* bestMatches: the array .map returns, before the filter
  bScored,      \* bestMatches: local `scored`
  bOut,         \* bestMatches: its result
  bPc,          \* bestMatches: "off", "ready", "done"
  xText,        \* excerpt: the argument text
  xLimit,       \* excerpt: the argument limit (undefined when omitted)
  xOut,         \* excerpt: its result
  xPc,          \* excerpt: "off", "ready", "done"
  cText,        \* handleChat: state.agreementText
  cQuestion,    \* handleChat: the argument question
  cMode,        \* handleChat: the argument mode
  cPc,          \* handleChat: "off", "ready", "fetch", "json", "done"
  cHits,        \* handleChat: local `hits`
  cOk,          \* handleChat: response.ok of the answer to the ask request
  cCaught,      \* handleChat: the failure its catch block caught, "none" if none
  cEvents,      \* analytics: the events stored under fw_analytics
  cSyncs,       \* analytics: the events posted to the analytics function
  cRanked,      \* calls of bestMatches made by handleChat
  cAsk,         \* the request bodies posted to /.netlify/functions/ask
  cReply        \* what handleChat resolved to

VARIABLES
  clock,        \* Date.now() of the function's instance
  sTicks,       \* clock advances so far
  rateLimitMap, \* the record (windowStart, count) of each identity
  rAllowedAt,   \* the times of the requests of each identity that were allowed
  rCalls,       \* the identities of the requests made, in order
  rLast,        \* the outcome of the last rate check of each identity
  rPrev         \* the outcome of the rate check before the last of each identity


VARIABLES
  kFirst,        \* a request: the question and the excerpts of its body
  kSecond,       \* another request
  kKeys,         \* the cache keys of the two requests
  kPc            \* "off", "call" or "done"

VARIABLES
  sLimiter,      \* the sliding-log limiter of the function deployed
  rateLimit,     \* the stored list of request times of each identity
  sAllowedAt,    \* the times of the requests of each identity that were allowed
  sCalls,        \* requests made so far
  sStatus,       \* the status of the last limiter step of each identity
  sPending       \* requests past the limiter that await the model's answer

VARIABLES
  responseCache, \* the entries (key, answer, timestamp) of the response cache
  hApiKey,       \* whether GEMINI_API_KEY is set
  hReq,          \* each request being handled: where its handler is, and its locals
  hResp,         \* the response the last step has returned, if it has returned one
  hAnswers,      \* the answers the model has given: key, answer, time of arrival
  hCalls         \* requests received so far

VARIABLES
  fHandler,      \* the function that forwards the excerpts to the model
  fIncoming,     \* the excerpts it receives, heading and text
  fForwarded,    \* the excerpts it puts into its request to the model
  fPc            \* "off", "call" or "done"

VARIABLES
  yHeap,         \* the objects allocated so far: sections and scored sections
  ySynonyms,     \* the table SYNONYMS of the module
  yIn,           \* the arguments of the last call of bestMatches
  yBase,         \* the number of objects before the last call
  yChunks,       \* the objects parseAgreement has made in the last call
  yOut,          \* the objects the last call has returned
  yThrew,        \* whether the last call has thrown
  yFirst,        \* for the arguments seen: the number and the result of their first call
  yCalls         \* calls so far
loadVars ==
  <<now, ticks, localStorage, pc, cached, cachedTime, startedAt, fetched, caught, result>>

normVars == <<nIn, nOut, nAgain, nPc>>

parseVars == <<pIn, pOut, pPc>>

headVars == <<hIn, hOut, hPc>>

expandVars == <<eIn, eOut, ePc>>

matchVars == <<bText, bQuestion, bTop, bTokens, bMapped, bScored, bOut, bPc>>

excerptVars == <<xText, xLimit, xOut, xPc>>

chatVars == <<cText, cQuestion, cMode, cPc, cHits, cOk, cCaught, cEvents, cSyncs, cRanked, cAsk, cReply>>

VARIABLES
  analyticsStore, \* the events the analytics function holds
  aPreload,       \* ghost: the events it held when the behaviour started
  aArrived,       \* ghost: all events pushed to it, in their order, as runs
  fwAnalytics,    \* the item fw_analytics of localStorage: the list it holds
  tPreload,       \* ghost: the events the item held when the behaviour started
  tTracked,       \* ghost: the payloads of the calls of track, in their order
  tPc,            \* track: "off", "idle", or "stored" before its call of _sync
  tPayload,       \* track: its payload
  tSyncs,         \* the calls of _sync whose fetch has not settled
  tSettled,       \* the ways in which calls of _sync have ended so far
  tCalls          \* calls of track so far

VARIABLES
  dMs,            \* debounce: the delay ms
  dTimer,         \* debounce: the variable timer of the closure, 0 while undefined
  dTimers,        \* the timers set and neither cleared nor run: id, due time, args
  dTime,          \* the time of the event loop
  dTicks,         \* advances of that time so far
  dCalled,        \* ghost: the calls of the debounced function, time and arguments
  dInvoked        \* ghost: the invocations of fn, time, arguments, calls made before


\* The functions that relay an upstream failure (Gemini, SendGrid).
VARIABLES
  uPc,        \* "idle" or "awaiting": the function waits for its upstream fetch
  uHandler,   \* the function that was called
  uUpstream,  \* what the upstream did with the last fetch
  uResp,      \* the response the function returned last
  uCalls      \* calls made so far

\* The service worker.
VARIABLES
  swCache,   \* the cache freshwater-vault-v4: URL -> response, NoCached if absent
  swEvents   \* the fetch events so far, each with its stage and its answer
searchVars == <<expandVars, matchVars, excerptVars, chatVars>>

docVars == <<loadVars, normVars, parseVars, headVars>>

rateVars == <<rateLimitMap, rAllowedAt, rCalls, rLast, rPrev>>

keyVars == <<kFirst, kSecond, kKeys, kPc>>

slideVars == <<sLimiter, rateLimit, sAllowedAt, sCalls, sStatus, sPending>>

cacheVars == <<responseCache, hApiKey, hReq, hResp, hAnswers, hCalls>>

forwardVars == <<fHandler, fIncoming, fForwarded, fPc>>

pureVars == <<yHeap, ySynonyms, yIn, yBase, yChunks, yOut, yThrew, yFirst, yCalls>>

eventVars ==
  <<analyticsStore, aPreload, aArrived, fwAnalytics, tPreload, tTracked, tPc, tPayload,
    tSyncs, tSettled, tCalls>>

debounceVars == <<dMs, dTimer, dTimers, dTime, dTicks, dCalled, dInvoked>>

relayVars == <<uPc, uHandler, uUpstream, uResp, uCalls>>

workerVars == <<swCache, swEvents>>

sideVars == <<eventVars, debounceVars, relayVars, workerVars>>

serverVars ==
  <<clock, sTicks, rateVars, keyVars, slideVars, cacheVars, forwardVars, pureVars>>

\* What the steps of each part of the ask function leave alone.
outsideRate ==
  <<docVars, searchVars, sideVars, keyVars, slideVars, cacheVars, forwardVars, pureVars>>

outsideKey ==
  <<docVars, searchVars, sideVars, clock, sTicks, rateVars, slideVars, cacheVars, forwardVars, pureVars>>

outsideSlide ==
  <<docVars, searchVars, sideVars, rateVars, keyVars, cacheVars, forwardVars, pureVars>>

outsideCache ==
  <<docVars, searchVars, sideVars, keyVars, slideVars, rAllowedAt, rCalls, rLast, rPrev, forwardVars, pureVars>>

outsideForward ==
  <<docVars, searchVars, sideVars, clock, sTicks, rateVars, keyVars, slideVars, cacheVars, pureVars>>

outsidePure ==
  <<docVars, searchVars, sideVars, clock, sTicks, rateVars, keyVars, slideVars, cacheVars, forwardVars>>

\* What the steps of the parts outside the ask function leave alone.
outsideEvents == <<docVars, searchVars, serverVars, debounceVars, relayVars, workerVars>>

outsideDebounce == <<docVars, searchVars, serverVars, eventVars, relayVars, workerVars>>

outsideRelay == <<docVars, searchVars, serverVars, eventVars, debounceVars, workerVars>>

outsideWorker == <<docVars, searchVars, serverVars, eventVars, debounceVars, relayVars>>

vars == <<loadVars, normVars, parseVars, headVars, searchVars, serverVars, sideVars>>

NoResult == [text |-> <<>>, status |-> "none"]

LoadInit ==
  /\ now = 0
  /\ ticks = 0
  /\ localStorage = [k \in {CACHE_KEY, CACHE_TIME_KEY} |-> JsNull]
  /\ pc = [p \in Callers |-> "idle"]
  /\ cached = [p \in Callers |-> JsNull]
  /\ cachedTime = [p \in Callers |-> JsNull]
  /\ startedAt = [p \in Callers |-> 0]
  /\ fetched = [p \in Callers |-> 0]
  /\ caught = [p \in Callers |-> "none"]
  /\ result = [p \in Callers |-> NoResult]

\* The freshness test of line 119.
IsFresh(c, ct, t) ==
  /\ Truthy(c)
  /\ Truthy(ct)
  /\ ~ParseInt(ct.v).nan
  /\ t - ParseInt(ct.v).n < CACHE_DURATION

\* The catch block: the stale copy if there is one, the load-error state otherwise.
CatchResult(c) ==
  IF Truthy(c) THEN [text |-> c.v, status |-> "cached"]
  ELSE [text |-> LoadErrorText, status |-> "error"]

\* Lines 116-125: read the cache, return it if fresh, else call fetch.
Begin(p) ==
  /\ pc[p] = "idle"
  /\ LET c == localStorage[CACHE_KEY]
         ct == localStorage[CACHE_TIME_KEY]
     IN /\ cached' = [cached EXCEPT ![p] = c]
        /\ cachedTime' = [cachedTime EXCEPT ![p] = ct]
        /\ startedAt' = [startedAt EXCEPT ![p] = now]
        /\ IF IsFresh(c, ct, now)
           THEN /\ result' = [result EXCEPT ![p] = [text |-> c.v, status |-> "cached"]]
                /\ pc' = [pc EXCEPT ![p] = "done"]
                /\ fetched' = [fetched EXCEPT ![p] = 0]
           ELSE /\ result' = result
                /\ pc' = [pc EXCEPT ![p] = "fetch"]
                /\ fetched' = [fetched EXCEPT ![p] = 1]
  /\ UNCHANGED <<now, ticks, localStorage, caught, normVars, parseVars, headVars, searchVars, serverVars, sideVars>>

\* The control flow entering the catch block of lines 134-142.
Catch(p, failure) ==
  /\ caught' = [caught EXCEPT ![p] = failure]
  /\ result' = [result EXCEPT ![p] = CatchResult(cached[p])]
  /\ pc' = [pc EXCEPT ![p] = "done"]
  /\ UNCHANGED <<now, ticks, localStorage, cached, cachedTime, startedAt, fetched>>
  /\ UNCHANGED <<normVars, parseVars, headVars, searchVars, serverVars, sideVars>>

\* Line 125: fetch rejects (network error).
FetchRejects(p) ==
  /\ pc[p] = "fetch"
  /\ Catch(p, "network")

\* Lines 125-127: fetch resolves with a non-OK status.
FetchNotOk(p) ==
  /\ pc[p] = "fetch"
  /\ Catch(p, "status")

\* Lines 125-129: fetch resolves with an OK status; the body is awaited.
FetchOk(p) ==
  /\ pc[p] = "fetch"
  /\ pc' = [pc EXCEPT ![p] = "body"]
  /\ UNCHANGED <<now, ticks, localStorage, cached, cachedTime, startedAt, fetched, caught, result>>
  /\ UNCHANGED <<normVars, parseVars, headVars, searchVars, serverVars, sideVars>>

\* Line 129: reading the body rejects.
BodyRejects(p) ==
  /\ pc[p] = "body"
  /\ Catch(p, "body")

\* The body arrives and only the text is stored.
StoreTextOnly(p, text) ==
  /\ localStorage' = [localStorage EXCEPT ![CACHE_KEY] = JsString(text)]
  /\ result' = [result EXCEPT ![p] = [text |-> text, status |-> "loaded"]]
  /\ pc' = [pc EXCEPT ![p] = "done"]
  /\ UNCHANGED <<now, ticks, cached, cachedTime, startedAt, fetched, caught>>
  /\ UNCHANGED <<normVars, parseVars, headVars, searchVars, serverVars, sideVars>>

\* Lines 129-133: the body arrives; text and timestamp are stored together.
StoreResult(p, text) ==
  /\ localStorage' = [localStorage EXCEPT ![CACHE_KEY] = JsString(text),
                                          ![CACHE_TIME_KEY] = JsString(NumToString(now))]
  /\ result' = [result EXCEPT ![p] = [text |-> text, status |-> "loaded"]]
  /\ pc' = [pc EXCEPT ![p] = "done"]
  /\ UNCHANGED <<now, ticks, cached, cachedTime, startedAt, fetched, caught>>
  /\ UNCHANGED <<normVars, parseVars, headVars, searchVars, serverVars, sideVars>>

BodyArrives(p) ==
  /\ pc[p] = "body"
  /\ \E text \in DocTexts : StoreResult(p, text)

\* The caller takes the result; the invocation's locals are gone.
Return(p) ==
  /\ pc[p] = "done"
  /\ pc' = [pc EXCEPT ![p] = "idle"]
  /\ cached' = [cached EXCEPT ![p] = JsNull]
  /\ cachedTime' = [cachedTime EXCEPT ![p] = JsNull]
  /\ startedAt' = [startedAt EXCEPT ![p] = 0]
  /\ fetched' = [fetched EXCEPT ![p] = 0]
  /\ caught' = [caught EXCEPT ![p] = "none"]
  /\ result' = [result EXCEPT ![p] = NoResult]
  /\ UNCHANGED <<now, ticks, localStorage, normVars, parseVars, headVars, searchVars, serverVars, sideVars>>

\* Time passes.
Tick ==
  /\ ticks < MaxTicks
  /\ \E d \in TickSteps : now' = now + d
  /\ ticks' = ticks + 1
  /\ UNCHANGED <<localStorage, pc, cached, cachedTime, startedAt, fetched, caught, result>>
  /\ UNCHANGED <<normVars, parseVars, headVars, searchVars, serverVars, sideVars>>

LoadNext ==
  \/ \E p \in Callers : Begin(p)
  \/ \E p \in Callers : FetchRejects(p)
  \/ \E p \in Callers : FetchNotOk(p)
  \/ \E p \in Callers : FetchOk(p)
  \/ \E p \in Callers : BodyRejects(p)
  \/ \E p \in Callers : BodyArrives(p)
  \/ \E p \in Callers : Return(p)
  \/ Tick

(* ------------------------------------------------------------------ *)
(* normalize, parseAgreement and isHeading applied to drawn inputs     *)
(* ------------------------------------------------------------------ *)

NoOutput == [threw |-> FALSE, val |-> <<>>]

NormIdle == nIn = JsNull /\ nOut = NoOutput /\ nAgain = NoOutput /\ nPc = "off"

ParseIdle == pIn = JsNull /\ pOut = <<>> /\ pPc = "off"

HeadIdle == hIn = <<>> /\ hOut = FALSE /\ hPc = "off"

NormChars == {"a", "A", "1", " ", "\t", "!", "U+00C9", "U+212A"}

\* Arguments that are no strings: null, undefined, 0, 7, NaN, false, true, {}, [].
NonStrings ==
  {JsNull, JsUndefined,
   [t |-> "number", v |-> <<"0">>], [t |-> "number", v |-> <<"7">>],
   [t |-> "number", v |-> <<"N", "a", "N">>],
   [t |-> "boolean", v |-> <<"f", "a", "l", "s", "e">>],
   [t |-> "boolean", v |-> <<"t", "r", "u", "e">>],
   [t |-> "object", v |-> <<>>], [t |-> "array", v |-> <<>>]}

NormInputs == {JsString(s) : s \in Strings(NormChars, MaxNormLen)} \cup NonStrings

NormInit ==
  /\ nIn \in NormInputs
  /\ nOut = NoOutput
  /\ nAgain = NoOutput
  /\ nPc = "ready"

CallNormalize ==
  /\ nPc = "ready"
  /\ nOut' = normalize(nIn)
  /\ nPc' = "once"
  /\ UNCHANGED <<nIn, nAgain, loadVars, parseVars, headVars, searchVars, serverVars, sideVars>>

\* normalize applied to a string normalize returned
CallNormalizeAgain ==
  /\ nPc = "once"
  /\ ~nOut.threw
  /\ nAgain' = normalize(JsString(nOut.val))
  /\ nPc' = "twice"
  /\ UNCHANGED <<nIn, nOut, loadVars, parseVars, headVars, searchVars, serverVars, sideVars>>

DocChars == {"1", " ", "a", "\n", "\r"}

\* The lines of the documents drawn line by line: empty, blank, body, two headings.
DocLines == {<<>>, <<" ">>, <<"a">>, <<"1", " ", "a">>, <<"2", ".", "1", " ", "b">>}

\* The lines ls joined by the line terminator sep.
RECURSIVE JoinWith(_, _)
JoinWith(ls, sep) ==
  IF Len(ls) = 1 THEN Head(ls) ELSE Head(ls) \o sep \o JoinWith(Tail(ls), sep)

\* Documents with a line that reads AGREEMENT or INTRODUCTION.
TitledDocs ==
  {JoinWith(ls, <<"\n">>) :
     ls \in {<<AGREEMENT, <<"a">>>>, <<<<"a">>, AGREEMENT, <<"a">>>>,
             <<INTRODUCTION, <<"a">>>>, <<AGREEMENT>>}}

ParseInputs ==
  {JsString(s) : s \in Strings(DocChars, MaxDocLen)}
    \cup {JsString(JoinWith(ls, sep)) :
            ls \in UNION {[1..k -> DocLines] : k \in 1..MaxDocLines},
            sep \in {<<"\n">>, <<"\r", "\n">>}}
    \cup {JsString(d) : d \in TitledDocs}
    \cup {JsNull, JsUndefined}

ParseInit ==
  /\ pIn \in ParseInputs
  /\ pOut = <<>>
  /\ pPc = "ready"

CallParseAgreement ==
  /\ pPc = "ready"
  /\ pOut' = parseAgreement(pIn)
  /\ pPc' = "done"
  /\ UNCHANGED <<pIn, loadVars, normVars, headVars, searchVars, serverVars, sideVars>>

HeadPrefixes ==
  {<<>>, <<"A">>, <<"9">>, <<"-", "A">>, <<"a">>, <<" ">>, SECTION, <<"A", "r", "t", "i", "c", "l", "e">>,
   <<"1", ".", "2", " ">>, <<"1", ".">>}

HeadFillChars == {"A", "7", " ", "\t", "&", "a"}

HeadSuffixes == {<<>>, <<"Z">>, <<":">>, <<"!">>, <<" ">>}

HeadInputs ==
  {pre \o Fill(c, n) \o suf :
     pre \in HeadPrefixes, c \in HeadFillChars, n \in 0..MaxFill, suf \in HeadSuffixes}

HeadInit ==
  /\ hIn \in HeadInputs
  /\ hOut = FALSE
  /\ hPc = "ready"

\* Lines 179-180: const t = line.trim(); isHeading(t)
CallIsHeading ==
  /\ hPc = "ready"
  /\ hOut' = isHeading(Trim(hIn))
  /\ hPc' = "done"
  /\ UNCHANGED <<hIn, loadVars, normVars, parseVars, searchVars, serverVars, sideVars>>

(* ------------------------------------------------------------------ *)
(* expandTokens, bestMatches and excerpt applied to drawn inputs       *)
(* ------------------------------------------------------------------ *)

\* Most words of a question handed to expandTokens.
MaxQueryWords == 3

\* Most sections of a document handed to bestMatches.
MaxSections == 4

\* Longest text handed to excerpt, of those drawn character by character.
MaxExcerptLen == 5

\* Largest limit handed to excerpt with those texts.
MaxLimit == 4

ExpandIdle == eIn = JsNull /\ eOut = NoOutput /\ ePc = "off"

MatchIdle ==
  /\ bText = JsNull
  /\ bQuestion = JsNull
  /\ bTop = JsUndefined
  /\ bTokens = <<>>
  /\ bMapped = <<>>
  /\ bScored = <<>>
  /\ bOut = NoOutput
  /\ bPc = "off"

ExcerptIdle == xText = JsNull /\ xLimit = JsUndefined /\ xOut = NoOutput /\ xPc = "off"

\* The words of the questions: with a capital, synonyms of one and of two groups,
\* concept keys, two words joined by a hyphen, a short word, words in no group.
QueryWords ==
  {<<"C", "a", "n", "c", "e", "l">>, <<"r", "e", "f", "u", "n", "d">>,
   <<"c", "h", "a", "r", "g", "e">>, <<"l", "i", "a", "b", "i", "l", "i", "t", "y">>,
   <<"s", "n", "o", "w">>, <<"S", "n", "o", "w", "-", "i", "c", "e">>,
   <<"a", "b">>, <<"c", "a", "t">>}

ExpandInputs ==
  {JsString(<<>>), JsNull, JsUndefined}
    \cup {JsString(JoinWith(ws, <<" ">>)) :
            ws \in UNION {[1..k -> QueryWords] : k \in 1..MaxQueryWords}}

ExpandInit ==
  /\ eIn \in ExpandInputs
  /\ eOut = NoOutput
  /\ ePc = "ready"

CallExpandTokens ==
  /\ ePc = "ready"
  /\ eOut' = expandTokens(eIn)
  /\ ePc' = "done"
  /\ UNCHANGED <<eIn, docVars, matchVars, excerptVars, chatVars, serverVars, sideVars>>

\* The sections of the documents handed to bestMatches: the words of the heading
\* behind its number, and the body line.
MatchSections ==
  {[head |-> <<"a">>, body |-> <<"s", "n", "o", "w">>],
   [head |-> <<"a">>,
    body |-> <<"s", "n", "o", "w", " ", "i", "c", "e", " ", "S", "n", "o", "w">>],
   [head |-> <<"s", "n", "o", "w">>, body |-> <<"c", "a", "t">>],
   [head |-> <<"a">>,
    body |-> <<"c", "a", "t", "e", "g", "o", "r", "y", " ", "c", "a", "t", " ",
               "U+00C9", "c", "a", "t", " ", "c", "a", "t", "_", "x">>]}

\* The document of the sections secs, the k-th under the heading line "k <head>".
RECURSIVE MatchDoc(_, _)
MatchDoc(secs, k) ==
  IF secs = <<>> THEN <<>>
  ELSE <<Digit(k), " ">> \o Head(secs).head \o <<"\n">> \o Head(secs).body \o <<"\n">>
         \o MatchDoc(Tail(secs), k + 1)

MatchTexts ==
  {JsNull}
    \cup {JsString(MatchDoc(secs, 1)) :
            secs \in UNION {[1..k -> MatchSections] : k \in 0..MaxSections}}

\* The arguments question and top (undefined when omitted).
MatchArgs ==
  {<<JsString(<<"s", "n", "o", "w">>), JsUndefined>>,
   <<JsString(<<"s", "n", "o", "w">>), JsNumber(0)>>,
   <<JsString(<<"s", "n", "o", "w">>), JsNumber(1)>>,
   <<JsString(<<"s", "n", "o", "w">>), JsNumber(2)>>,
   <<JsString(<<"s", "n", "o", "w", " ", "s", "n", "o", "w">>), JsUndefined>>,
   <<JsString(<<"c", "a", "t">>), JsUndefined>>,
   <<JsString(<<"c", "a", "t">>), JsNumber(1)>>,
   <<JsString(<<"x", "y", "z", "z", "y">>), JsUndefined>>,
   <<JsString(<<>>), JsUndefined>>}

MatchInit ==
  /\ bText \in MatchTexts
  /\ \E a \in MatchArgs : bQuestion = a[1] /\ bTop = a[2]
  /\ bTokens = <<>>
  /\ bMapped = <<>>
  /\ bScored = <<>>
  /\ bOut = NoOutput
  /\ bPc = "ready"

\* Lines 224-242, the locals kept: tokens, the mapped array, scored, the slice.
CallBestMatches ==
  /\ bPc = "ready"
  /\ LET tokens == expandTokens(bQuestion)
     IN /\ bTokens' = tokens.val
        /\ bMapped' = IF tokens.threw THEN <<>>
                      ELSE Scored(parseAgreement(bText), tokens.val)
        /\ bScored' = SortByScore(SelectSeq(bMapped', HasScore), <<>>)
        /\ bOut' = [threw |-> tokens.threw, val |-> Slice(bScored', TopOf(bTop))]
  /\ bPc' = "done"
  /\ UNCHANGED <<bText, bQuestion, bTop, docVars, expandVars, excerptVars, chatVars, serverVars, sideVars>>

ExcerptChars == {"a", "b", " ", "\n"}

\* Texts around the default limit, and the one of the unit test.
LongTexts == {JsString(Fill("a", n)) : n \in {900, 901, 1000}}

LongLimits == {JsUndefined, JsNumber(100)}

ExcerptInputs ==
  ({JsString(s) : s \in Strings(ExcerptChars, MaxExcerptLen)} \cup {JsNull, JsUndefined})
     \X ({JsUndefined} \cup {JsNumber(n) : n \in 0..MaxLimit})
    \cup (LongTexts \X LongLimits)

ExcerptInit ==
  /\ \E in \in ExcerptInputs : xText = in[1] /\ xLimit = in[2]
  /\ xOut = NoOutput
  /\ xPc = "ready"

CallExcerpt ==
  /\ xPc = "ready"
  /\ xOut' = excerpt(xText, xLimit)
  /\ xPc' = "done"
  /\ UNCHANGED <<xText, xLimit, docVars, expandVars, matchVars, chatVars, serverVars, sideVars>>

(* ------------------------------------------------------------------ *)
(* handleChat and analytics.track                                      *)
(* ------------------------------------------------------------------ *)

\* part_003 is the module app.js imports as ./analytics.js.
MAX_LOCAL_EVENTS == 500

\* The third argument of bestMatches at line 118.
ChatTop == 3

\* The second argument of excerpt at line 146.
AskLimit == 1200

\* The reply of lines 120-125.
NotFoundText ==
  <<"I", " ", "c", "o", "u", "l", "d", "n", "'", "t", " ", "l", "o", "c", "a", "t",
  "e", " ", "t", "h", "a", "t", " ", "i", "n", " ", "t", "h", "e", " ", "a", "g", "r",
  "e", "e", "m", "e", "n", "t", " ", "t", "e", "x", "t", ".", " ", "T", "r", "y", " ",
  "k", "e", "y", "w", "o", "r", "d", "s", " ", "l", "i", "k", "e", ":", " ", "c", "a",
  "n", "c", "e", "l", "l", "a", "t", "i", "o", "n", ",", " ", "l", "a", "t", "e", " ",
  "f", "e", "e", ",", " ", "l", "i", "a", "b", "i", "l", "i", "t", "y", ",", " ", "a",
  "r", "b", "i", "t", "r", "a", "t", "i", "o", "n", ",", " ", "s", "c", "o", "p", "e",
  ",", " ", "s", "n", "o", "w", ",", " ", "m", "o", "w", "i", "n", "g", ".">>

\* The three fixed parts of the template literal of line 131.
QuickPrefix ==
  <<"H", "e", "r", "e", " ", "y", "o", "u", " ", "g", "o", ".", "\n", "\n", "S", "O",
  "U", "R", "C", "E", ":", " ">>

QuickMiddle ==
  <<"\n", "\n", "\"">>

QuickSuffix ==
  <<"\"", "\n", "\n", "(", "I", "n", "f", "o", "r", "m", "a", "t", "i", "o", "n", "a",
  "l", " ", "o", "n", "l", "y", " ", "U+2014", " ", "t", "h", "e", " ", "s", "i", "g",
  "n", "e", "d", " ", "a", "g", "r", "e", "e", "m", "e", "n", "t", " ", "c", "o", "n",
  "t", "r", "o", "l", "s", ".", ")">>

\* The reply of the catch block, lines 155-160.
UnavailableText ==
  <<"A", "I", " ", "E", "x", "p", "l", "a", "i", "n", " ", "i", "s", " ", "u", "n",
  "a", "v", "a", "i", "l", "a", "b", "l", "e", " ", "r", "i", "g", "h", "t", " ", "n",
  "o", "w", ".", " ", "U", "s", "e", " ", "Q", "u", "i", "c", "k", " ", "m", "o", "d",
  "e", " ", "o", "r", " ", "c", "o", "n", "t", "a", "c", "t", " ", "F", "r", "e", "s",
  "h", "w", "a", "t", "e", "r", " ", "s", "u", "p", "p", "o", "r", "t", ".">>

NoReply == [role |-> "none", text |-> JsUndefined]

ChatIdle ==
  /\ cText = <<>>
  /\ cQuestion = <<>>
  /\ cMode = "quick"
  /\ cPc = "off"
  /\ cHits = <<>>
  /\ cOk = FALSE
  /\ cCaught = "none"
  /\ cEvents = <<>>
  /\ cSyncs = <<>>
  /\ cRanked = 0
  /\ cAsk = <<>>
  /\ cReply = NoReply

\* state.agreementText: not loaded yet; two sections, the second the better match
\* for snow; one section whose body has a blank line and runs of spaces.
ChatTexts ==
  {<<>>,
   <<"1", " ", "a", "\n", "s", "n", "o", "w", "\n",
     "2", " ", "b", "\n", "s", "n", "o", "w", " ", "i", "c", "e", "\n">>,
   <<"1", " ", "a", "\n", " ", "i", "c", "e", " ", " ", "i", "c", "e", "\n", "\n",
     "s", "n", "o", "w", "\n">>}

ChatQuestions ==
  {<<>>, <<" ">>, <<"\t", "\n">>, <<"s", "n", "o", "w">>, <<"i", "c", "e", "?">>,
   <<" ", "S", "n", "o", "w", " ">>, <<"x", "y", "z", "z", "y">>}

ChatModes == {"quick", "ai"}

\* What response.json() can resolve to: null, or an object with or without the
\* fields answer and error.
ChatData ==
  {JsNull,
   [t |-> "object", answer |-> JsString(<<"o", "k">>), error |-> JsUndefined],
   [t |-> "object", answer |-> JsString(<<>>), error |-> JsUndefined],
   [t |-> "object", answer |-> JsUndefined, error |-> JsUndefined],
   [t |-> "object", answer |-> JsUndefined, error |-> JsString(<<"q", "u", "o", "t", "a">>)]}

ChatInit ==
  /\ cText \in ChatTexts
  /\ cQuestion \in ChatQuestions
  /\ cMode \in ChatModes
  /\ cPc = "ready"
  /\ cHits = <<>>
  /\ cOk = FALSE
  /\ cCaught = "none"
  /\ cEvents = <<>>
  /\ cSyncs = <<>>
  /\ cRanked = 0
  /\ cAsk = <<>>
  /\ cReply = NoReply

\* analytics.track, lines 39-44 of part_003: the list stored under fw_analytics.
Track(stored, payload) ==
  LET pushed == Append(stored, payload)
  IN IF Len(pushed) > MAX_LOCAL_EVENTS
     THEN SubSeq(pushed, Len(pushed) - MAX_LOCAL_EVENTS + 1, Len(pushed))
     ELSE pushed

\* The message object handleChat returns.
AiMessage(text) == [role |-> "ai", text |-> text]

\* The reply of lines 128-132.
QuickReply(best) ==
  AiMessage(JsString(QuickPrefix \o best.heading \o QuickMiddle
                       \o excerpt(JsString(best.text), JsUndefined).val \o QuickSuffix))

\* The body of the request of lines 139-149.
AskBody(question, hits) ==
  [question |-> question,
   excerpts |-> [i \in 1..Len(hits) |->
                   [heading |-> hits[i].heading,
                    text |-> excerpt(JsString(hits[i].text), JsNumber(AskLimit)).val]]]

\* The branch with the blank test of line 114 made without trim().
BranchNoTrim(question, hits, mode) ==
  IF question = <<>> THEN "blank"
  ELSE IF hits = <<>> THEN "nomatch"
  ELSE IF mode = "quick" THEN "quick"
  ELSE "ai"

\* The branch with the mode tested before the hits.
BranchModeFirst(question, hits, mode) ==
  IF Trim(question) = <<>> THEN "blank"
  ELSE IF mode # "quick" THEN "ai"
  ELSE IF hits = <<>> THEN "nomatch"
  ELSE "quick"

\* The branch without the test of the mode.
BranchNoQuick(question, hits, mode) ==
  IF Trim(question) = <<>> THEN "blank"
  ELSE IF hits = <<>> THEN "nomatch"
  ELSE "ai"

\* The branch handleChat takes: the tests of lines 114, 120 and 127, in this order.
Branch(question, hits, mode) ==
  IF Trim(question) = <<>> THEN "blank"
  ELSE IF hits = <<>> THEN "nomatch"
  ELSE IF mode = "quick" THEN "quick"
  ELSE "ai"

\* Lines 114-149: handleChat up to its first return or to the await of fetch.
\* cRanked counts the calls of bestMatches, none on the blank branch.
ChatBegin ==
  /\ cPc = "ready"
  /\ LET search == [event |-> "search", query |-> cQuestion, mode |-> cMode]
         aiQuery == [event |-> "ai_query", query |-> cQuestion]
         hits == bestMatches(JsString(cText), JsString(cQuestion), JsNumber(ChatTop)).val
         branch == Branch(cQuestion, hits, cMode)
     IN IF branch = "blank"
        THEN /\ cReply' = JsNull
             /\ cPc' = "done"
             /\ UNCHANGED <<cHits, cEvents, cSyncs, cRanked, cAsk>>
        ELSE /\ cHits' = hits
             /\ cRanked' = cRanked + 1
             /\ IF branch = "nomatch"
                THEN /\ cReply' = AiMessage(JsString(NotFoundText))
                     /\ cPc' = "done"
                     /\ cEvents' = Track(cEvents, search)
                     /\ cSyncs' = Append(cSyncs, search)
                     /\ cAsk' = cAsk
                ELSE IF branch = "quick"
                THEN /\ cReply' = QuickReply(hits[1])
                     /\ cPc' = "done"
                     /\ cEvents' = Track(cEvents, search)
                     /\ cSyncs' = Append(cSyncs, search)
                     /\ cAsk' = cAsk
                ELSE /\ cReply' = cReply
                     /\ cPc' = "fetch"
                     /\ cEvents' = Track(Track(cEvents, search), aiQuery)
                     /\ cSyncs' = cSyncs \o <<search, aiQuery>>
                     /\ cAsk' = Append(cAsk, AskBody(cQuestion, hits))
  /\ UNCHANGED <<cText, cQuestion, cMode, cOk, cCaught>>
  /\ UNCHANGED <<docVars, expandVars, matchVars, excerptVars, serverVars, sideVars>>

\* The control flow entering the catch block of lines 155-160.
ChatCatch(failure) ==
  /\ cCaught' = failure
  /\ cReply' = AiMessage(JsString(UnavailableText))
  /\ cPc' = "done"
  /\ UNCHANGED <<cText, cQuestion, cMode, cHits, cOk, cEvents, cSyncs, cRanked, cAsk>>
  /\ UNCHANGED <<docVars, expandVars, matchVars, excerptVars, serverVars, sideVars>>

\* Line 139: fetch rejects.
ChatFetchRejects ==
  /\ cPc = "fetch"
  /\ ChatCatch("network")

\* Lines 139-151: fetch resolves, with an OK status or another; the body is awaited.
ChatFetchResolves ==
  /\ cPc = "fetch"
  /\ cOk' \in BOOLEAN
  /\ cPc' = "json"
  /\ UNCHANGED <<cText, cQuestion, cMode, cHits, cCaught, cEvents, cSyncs, cRanked, cAsk, cReply>>
  /\ UNCHANGED <<docVars, expandVars, matchVars, excerptVars, serverVars, sideVars>>

\* Line 151: response.json() rejects (the body is no JSON).
ChatJsonRejects ==
  /\ cPc = "json"
  /\ ChatCatch("json")

\* Lines 151-154: the parsed body arrives.
ChatJsonArrives ==
  /\ cPc = "json"
  /\ \E data \in ChatData :
       IF data = JsNull
       THEN ChatCatch("type")
       ELSE IF ~cOk
       THEN ChatCatch("status")
       ELSE /\ cReply' = AiMessage(data.answer)
            /\ cPc' = "done"
            /\ UNCHANGED <<cText, cQuestion, cMode, cHits, cOk, cCaught, cEvents, cSyncs,
                           cRanked, cAsk>>
            /\ UNCHANGED <<docVars, expandVars, matchVars, excerptVars, serverVars, sideVars>>

ChatNext ==
  \/ ChatBegin
  \/ ChatFetchRejects
  \/ ChatFetchResolves
  \/ ChatJsonRejects
  \/ ChatJsonArrives

(* ------------------------------------------------------------------ *)
(* The ask function: the rate limit                                    *)
(* ------------------------------------------------------------------ *)

\* Number of clock advances in one behaviour of the ask function.
MaxServerTicks == 2

\* Number of requests made in one behaviour of the rate limiter.
MaxCalls == 3

\* Amounts by which the clock of the function advances between two steps.
ServerTickSteps == {1, RATE_WINDOW - 1, RATE_WINDOW}

\* No rate check made yet.
NoCheck ==
  [at |-> -1, allowed |-> TRUE, remaining |-> 0, resetIn |-> JsUndefined, status |-> 0,
   retryAfter |-> JsUndefined]

RateIdle ==
  /\ rateLimitMap = [ip \in Ips |-> NoRecord]
  /\ rAllowedAt = [ip \in Ips |-> <<>>]
  /\ rCalls = <<>>
  /\ rLast = [ip \in Ips |-> NoCheck]
  /\ rPrev = [ip \in Ips |-> NoCheck]

\* The requests an identity has made in its window when the behaviour starts:
\* none, one, all but one of the quota, the whole quota.
PreloadCounts == {0, 1, RATE_LIMIT - 1, RATE_LIMIT}

\* The times the behaviour can start at, the windows having started at 0.
StartClocks == {0, 2}

\* The state after each identity has made some requests, the first at time 0 and
\* the others now.
RateInit ==
  /\ clock \in StartClocks
  /\ sTicks = 0
  /\ \E made \in [Ips -> PreloadCounts] :
       /\ rateLimitMap = [ip \in Ips |->
                            IF made[ip] = 0 THEN NoRecord
                            ELSE [windowStart |-> 0, count |-> made[ip]]]
       /\ rAllowedAt = [ip \in Ips |->
                          IF made[ip] = 0 THEN <<>>
                          ELSE <<0>> \o Fill(clock, made[ip] - 1)]
  /\ rCalls = <<>>
  /\ rLast = [ip \in Ips |-> NoCheck]
  /\ rPrev = [ip \in Ips |-> NoCheck]

\* Lines 195-213 of the handler: the rate check of a request of the identity ip,
\* answered with 429 and Retry-After when it is not allowed.
RateCheck(ip) ==
  /\ Len(rCalls) < MaxCalls
  /\ LET rateCheck == checkRateLimit(rateLimitMap, ip, clock)
     IN /\ rateLimitMap' = rateCheck.map
        /\ rAllowedAt' = IF rateCheck.allowed
                         THEN [rAllowedAt EXCEPT ![ip] = Append(@, clock)]
                         ELSE rAllowedAt
        /\ rLast' = [rLast EXCEPT ![ip] =
                       [at |-> clock,
                        allowed |-> rateCheck.allowed,
                        remaining |-> rateCheck.remaining,
                        resetIn |-> rateCheck.resetIn,
                        status |-> IF rateCheck.allowed THEN 0 ELSE 429,
                        retryAfter |-> IF rateCheck.allowed THEN JsUndefined
                                       ELSE JsString(rateCheck.resetIn.v)]]
  /\ rPrev' = [rPrev EXCEPT ![ip] = rLast[ip]]
  /\ rCalls' = Append(rCalls, ip)
  /\ UNCHANGED <<clock, sTicks>>
  /\ UNCHANGED outsideRate

\* Time passes at the function.
ServerTick ==
  /\ sTicks < MaxServerTicks
  /\ \E d \in ServerTickSteps : clock' = clock + d
  /\ sTicks' = sTicks + 1
  /\ UNCHANGED <<rateVars, outsideRate>>

\* The identity ip, rejected, waits the seconds Retry-After told it to.
WaitRetryAfter(ip) ==
  /\ sTicks < MaxServerTicks
  /\ rLast[ip].status = 429
  /\ LET due == rLast[ip].at + 1000 * ParseInt(rLast[ip].retryAfter.v).n
     IN /\ due >= clock
        /\ clock' = due
  /\ sTicks' = sTicks + 1
  /\ UNCHANGED <<rateVars, outsideRate>>

RateNext ==
  \/ \E ip \in Ips : RateCheck(ip)
  \/ ServerTick
  \/ \E ip \in Ips : WaitRetryAfter(ip)


(* ------------------------------------------------------------------ *)
(* The ask function: the key of the response cache                     *)
(* ------------------------------------------------------------------ *)

\* Number of excerpts in the body of a request whose key is computed.
MaxKeyExcerpts == 2

KeyQuestions == {<<"Q">>, <<" ", "q">>, <<"r">>}

\* Excerpts with the headings "a", "b" and "a|b".
KeyExcerpts ==
  {[heading |-> <<"a">>, text |-> <<"x">>],
   [heading |-> <<"a">>, text |-> <<"y">>],
   [heading |-> <<"b">>, text |-> <<"x">>],
   [heading |-> <<"a", "|", "b">>, text |-> <<"x">>]}

KeyRequests ==
  [question : KeyQuestions,
   excerpts : UNION {[1..k -> KeyExcerpts] : k \in 1..MaxKeyExcerpts}]

NoKeys == <<<<>>, <<>>>>

KeyIdle ==
  /\ kFirst = [question |-> <<>>, excerpts |-> <<>>]
  /\ kSecond = [question |-> <<>>, excerpts |-> <<>>]
  /\ kKeys = NoKeys
  /\ kPc = "off"

KeyInit ==
  /\ kFirst \in KeyRequests
  /\ kSecond \in KeyRequests
  /\ kKeys = NoKeys
  /\ kPc = "call"

\* Line 234 of the handler, for each of the two requests.
CallGetCacheKey ==
  /\ kPc = "call"
  /\ kKeys' = <<getCacheKey(kFirst.question, kFirst.excerpts),
                getCacheKey(kSecond.question, kSecond.excerpts)>>
  /\ kPc' = "done"
  /\ UNCHANGED <<kFirst, kSecond>>
  /\ UNCHANGED outsideKey

KeyNext == CallGetCacheKey

(* ------------------------------------------------------------------ *)
(* The older ask functions: the sliding-log limiter                    *)
(* ------------------------------------------------------------------ *)

\* Number of requests made in one behaviour of the sliding-log limiter.
MaxSlideCalls == 3

SlideIdle ==
  /\ sLimiter = [name |-> "none", windowMs |-> 0, maxReq |-> 0]
  /\ rateLimit = [ip \in Ips |-> <<>>]
  /\ sAllowedAt = [ip \in Ips |-> <<>>]
  /\ sCalls = 0
  /\ sStatus = [ip \in Ips |-> 0]
  /\ sPending = 0

\* The stored list of an identity at time 1: no request yet, the whole quota at
\* time 0, one request at time 0 and the rest of the quota at time 1.
SlidePreloads(lim) ==
  {<<>>, Fill(0, lim.maxReq), <<0>> \o Fill(1, lim.maxReq - 1)}

SlideInit ==
  /\ clock = 1
  /\ sTicks = 0
  /\ sLimiter \in Limiters
  /\ rateLimit \in [Ips -> SlidePreloads(sLimiter)]
  /\ sAllowedAt = rateLimit
  /\ sCalls = 0
  /\ sStatus = [ip \in Ips |-> 0]
  /\ sPending = 0

\* ask.js, lines 116-126 (part_000, 66-87): the limiter step of a request of the
\* identity ip; it runs to its end before the handler first awaits.
SlideRequest(ip) ==
  /\ sCalls < MaxSlideCalls
  /\ LET out == slidingLog(rateLimit[ip], clock, sLimiter)
     IN /\ rateLimit' = [rateLimit EXCEPT ![ip] = out.list]
        /\ sAllowedAt' = IF out.allowed
                         THEN [sAllowedAt EXCEPT ![ip] = Append(@, clock)]
                         ELSE sAllowedAt
        /\ sStatus' = [sStatus EXCEPT ![ip] = out.statusCode]
        /\ sPending' = IF out.allowed THEN sPending + 1 ELSE sPending
  /\ sCalls' = sCalls + 1
  /\ UNCHANGED <<clock, sTicks, sLimiter>>
  /\ UNCHANGED outsideSlide

\* ask.js, lines 168-190: the answer of the model arrives for a request that is
\* past the limiter, and the handler returns.
SlideRespond ==
  /\ sPending > 0
  /\ sPending' = sPending - 1
  /\ UNCHANGED <<clock, sTicks, sLimiter, rateLimit, sAllowedAt, sCalls, sStatus>>
  /\ UNCHANGED outsideSlide

\* Time passes at the function.
SlideTick ==
  /\ sTicks < MaxServerTicks
  /\ \E d \in {1, sLimiter.windowMs - 1, sLimiter.windowMs} : clock' = clock + d
  /\ sTicks' = sTicks + 1
  /\ UNCHANGED <<sLimiter, rateLimit, sAllowedAt, sCalls, sStatus, sPending>>
  /\ UNCHANGED outsideSlide

SlideNext ==
  \/ \E ip \in Ips : SlideRequest(ip)
  \/ SlideRespond
  \/ SlideTick

(* ------------------------------------------------------------------ *)
(* The ask function: the handler and its response cache                *)
(* ------------------------------------------------------------------ *)

\* Number of requests received in one behaviour of the handler.
MaxHandlerCalls == 2

\* The requests that can be in the handler at once.
Slots == {1, 2}

\* Entries of other questions in the cache when the behaviour starts.
Fillers == 99

Asked(question, excerpts) ==
  [question |-> question, excerpts |-> [isArray |-> TRUE, items |-> excerpts]]

\* req.json() of a body that is no JSON: {} after the catch of line 216.
EmptyBody == [question |-> JsUndefined, excerpts |-> [isArray |-> FALSE, items |-> <<>>]]

OneExcerpt(text) == <<[heading |-> JsString(<<"a">>), text |-> JsString(text)]>>

\* The bodies of the requests: none, the question "q" written in two ways and the
\* question "r" with an excerpt headed "a", an excerpt that is null.
HandlerBodies ==
  {EmptyBody,
   Asked(JsString(<<"q">>), OneExcerpt(<<"x">>)),
   Asked(JsString(<<"<", "i", ">", "Q", " ">>), OneExcerpt(<<"y">>)),
   Asked(JsString(<<"r">>), OneExcerpt(<<"x">>)),
   Asked(JsString(<<"q">>), <<JsNull>>)}

Methods == {"POST", "GET", "OPTIONS"}

\* The texts of the model's answer; the empty one also stands for a body of the
\* model's response that has no text or is no JSON.
ModelTexts == {<<>>, <<"A", "1">>}

NoRequest == [pc |-> "idle", body |-> EmptyBody, cacheKey |-> <<>>, ok |-> FALSE]

\* The response of a request: its status, the answer and the cached flag of its
\* body; with them the key of the request, whether the handler has called the
\* model for it and, for an answer from the cache, the time of the response.
NoResponse ==
  [status |-> 0, answer |-> <<>>, cached |-> FALSE, at |-> 0, cacheKey |-> <<>>,
   called |-> FALSE]

Response(status, called) == [NoResponse EXCEPT !.status = status, !.called = called]

FillerEntry(i) ==
  [key |-> <<"f">> \o NumToString(i) \o <<":", ":", "a">>, answer |-> <<"A", "0">>,
   timestamp |-> 0]

\* The cache when the behaviour starts: empty, or the answers given at time 0 to
\* Fillers other questions and to the question "q".
CachePreloads ==
  {<<>>,
   [i \in 1..Fillers |-> FillerEntry(i)]
     \o <<[key |-> <<"q", ":", ":", "a">>, answer |-> <<"A", "0">>, timestamp |-> 0]>>}

HandlerIdle ==
  /\ responseCache = <<>>
  /\ hApiKey = FALSE
  /\ hReq = [q \in Slots |-> NoRequest]
  /\ hResp = NoResponse
  /\ hAnswers = {}
  /\ hCalls = 0

\* The state at time 1: the identity "b" has used its quota at time 0.
HandlerInit ==
  /\ clock = 1
  /\ sTicks = 0
  /\ rateLimitMap = [ip \in Ips |-> IF ip = "b" THEN [windowStart |-> 0, count |-> RATE_LIMIT]
                                   ELSE NoRecord]
  /\ rAllowedAt = [ip \in Ips |-> IF ip = "b" THEN Fill(0, RATE_LIMIT) ELSE <<>>]
  /\ rCalls = <<>>
  /\ rLast = [ip \in Ips |-> NoCheck]
  /\ rPrev = [ip \in Ips |-> NoCheck]
  /\ responseCache \in CachePreloads
  /\ hApiKey \in BOOLEAN
  /\ hReq = [q \in Slots |-> NoRequest]
  /\ hResp = NoResponse
  /\ hAnswers = {[key |-> responseCache[i].key, answer |-> responseCache[i].answer,
                  at |-> responseCache[i].timestamp] : i \in 1..Len(responseCache)}
  /\ hCalls = 0

\* The handler answers the request of the slot q and returns.
Respond(q, response) ==
  /\ hResp' = response
  /\ hReq' = [hReq EXCEPT ![q] = NoRequest]

\* Lines 174-216: a request arrives and takes the first free slot; the handler
\* runs up to the await of its body.
HandlerBegin(q, ip, method, body) ==
  /\ hReq[q].pc = "idle"
  /\ \A other \in Slots : hReq[other].pc = "idle" => q <= other
  /\ hCalls < MaxHandlerCalls
  /\ hCalls' = hCalls + 1
  /\ IF method = "OPTIONS"
     THEN /\ Respond(q, Response(204, FALSE))
          /\ UNCHANGED rateLimitMap
     ELSE IF method # "POST"
     THEN /\ Respond(q, Response(405, FALSE))
          /\ UNCHANGED rateLimitMap
     ELSE LET rateCheck == checkRateLimit(rateLimitMap, ip, clock)
          IN /\ rateLimitMap' = rateCheck.map
             /\ IF ~rateCheck.allowed
                THEN Respond(q, Response(429, FALSE))
                ELSE /\ hReq' = [hReq EXCEPT ![q] = [NoRequest EXCEPT !.pc = "body",
                                                                      !.body = body]]
                     /\ hResp' = NoResponse
  /\ UNCHANGED <<clock, sTicks, responseCache, hApiKey, hAnswers>>
  /\ UNCHANGED outsideCache

\* Lines 216-289: the body is read; the handler validates it, answers from the
\* cache or runs up to the await of the model's response.
HandlerBody(q) ==
  /\ hReq[q].pc = "body"
  /\ LET body == hReq[q].body
         question == sanitizeInput(body.question)
         excerpts == IF body.excerpts.isArray THEN body.excerpts.items ELSE <<>>
         clean == cleanExcerpts(excerpts)
         cacheKey == getCacheKey(question, clean.val)
     IN IF question = <<>> \/ excerpts = <<>>
        THEN Respond(q, Response(400, FALSE))
        ELSE IF clean.threw
        THEN Respond(q, Response(500, FALSE))
        ELSE IF CacheServes(responseCache, cacheKey, clock)
        THEN Respond(q, [status |-> 200,
                         answer |-> CacheGet(responseCache, cacheKey).answer,
                         cached |-> TRUE, at |-> clock, cacheKey |-> cacheKey,
                         called |-> FALSE])
        ELSE IF ~hApiKey
        THEN Respond(q, Response(500, FALSE))
        ELSE /\ hReq' = [hReq EXCEPT ![q] = [NoRequest EXCEPT !.pc = "fetch",
                                                              !.cacheKey = cacheKey]]
             /\ hResp' = NoResponse
  /\ UNCHANGED <<clock, sTicks, rateLimitMap, responseCache, hApiKey, hAnswers, hCalls>>
  /\ UNCHANGED outsideCache

\* Line 289: the model's response arrives, with an OK status or not.
HandlerFetch(q) ==
  /\ hReq[q].pc = "fetch"
  /\ \E ok \in BOOLEAN : hReq' = [hReq EXCEPT ![q].pc = "json", ![q].ok = ok]
  /\ hResp' = NoResponse
  /\ UNCHANGED <<clock, sTicks, rateLimitMap, responseCache, hApiKey, hAnswers, hCalls>>
  /\ UNCHANGED outsideCache

\* Lines 289 and 327-332: the fetch rejects and the handler answers 500.
HandlerFetchRejects(q) ==
  /\ hReq[q].pc = "fetch"
  /\ Respond(q, Response(500, TRUE))
  /\ UNCHANGED <<clock, sTicks, rateLimitMap, responseCache, hApiKey, hAnswers, hCalls>>
  /\ UNCHANGED outsideCache

\* Lines 295-326: the body of the model's response is read; a usable answer is
\* stored, the cache cleaned when it has grown, and the answer returned.
HandlerJson(q) ==
  /\ hReq[q].pc = "json"
  /\ \E text \in ModelTexts :
       IF ~hReq[q].ok \/ text = <<>>
       THEN /\ Respond(q, Response(502, TRUE))
            /\ UNCHANGED <<responseCache, hAnswers>>
       ELSE /\ responseCache' =
                 CacheClean(CacheSet(responseCache, hReq[q].cacheKey, text, clock), clock)
            /\ hAnswers' = hAnswers \cup
                 {[key |-> hReq[q].cacheKey, answer |-> text, at |-> clock]}
            /\ Respond(q, [status |-> 200, answer |-> text, cached |-> FALSE,
                           at |-> 0, cacheKey |-> hReq[q].cacheKey, called |-> TRUE])
  /\ UNCHANGED <<clock, sTicks, rateLimitMap, hApiKey, hCalls>>
  /\ UNCHANGED outsideCache

\* Time passes at the function: a millisecond less than the time to live of the
\* cache, so that an entry stored now is then at the last moment of its life and
\* an entry stored a millisecond ago is at the end of it.
HandlerTick ==
  /\ sTicks < MaxServerTicks
  /\ clock' = clock + (CACHE_TTL - 1)
  /\ sTicks' = sTicks + 1
  /\ hResp' = NoResponse
  /\ UNCHANGED <<rateLimitMap, responseCache, hApiKey, hReq, hAnswers, hCalls>>
  /\ UNCHANGED outsideCache

HandlerNext ==
  \/ \E q \in Slots, ip \in Ips, method \in Methods, body \in HandlerBodies :
       HandlerBegin(q, ip, method, body)
  \/ \E q \in Slots : HandlerBody(q)
  \/ \E q \in Slots : HandlerFetch(q)
  \/ \E q \in Slots : HandlerFetchRejects(q)
  \/ \E q \in Slots : HandlerJson(q)
  \/ HandlerTick

(* ------------------------------------------------------------------ *)
(* The excerpts forwarded to the model                                 *)
(* ------------------------------------------------------------------ *)

\* String(x || "")
StringOrEmpty(x) == IF Truthy(x) THEN x.v ELSE <<>>

\* analytics.js, lines 228-231 and 256-258: the excerpts of the context are the
\* cleaned ones.
ForwardClean(excerpts) == cleanExcerpts(excerpts).val

\* ask.js, lines 143-147: the protected handler.
ForwardProtected(excerpts) ==
  LET kept == Slice(excerpts, 3)
  IN [i \in 1..Len(kept) |->
        [heading |-> Slice(StringOrEmpty(kept[i].heading), 220),
         text |-> Slice(StringOrEmpty(kept[i].text), 1600)]]

\* part_000, lines 118-121: the hourly handler.
ForwardHourly(excerpts) ==
  LET kept == Slice(excerpts, 3)
  IN [i \in 1..Len(kept) |->
        [heading |-> Slice(StringOrEmpty(kept[i].heading), 220),
         text |-> Slice(StringOrEmpty(kept[i].text), 1400)]]

\* ask.js, lines 34-36 (and line 258): the handlers that put every excerpt into
\* the context as it came.
ForwardAll(excerpts) ==
  [i \in 1..Len(excerpts) |-> [heading |-> excerpts[i].heading.v, text |-> excerpts[i].text.v]]

\* The functions that send excerpts to the model or to the ask function.
Forwarders == {"handleChat", "analytics.js", "ask.js protected", "part_000", "ask.js default"}

\* Number of excerpts in a request to a handler.
MaxIncoming == 6

\* The lengths of the text of an excerpt that comes in.
TextLengths == {5, 1200, 1201, 1400, 1401, 1500, 1501, 1600, 1601, 2100}

\* n excerpts with the headings "1", "2", ... and a text of len characters.
Incoming(n, len) == [i \in 1..n |-> [heading |-> NumToString(i), text |-> Fill("a", len)]]

\* The excerpts as the values of the parsed body of a request.
AsValues(excerpts) ==
  [i \in 1..Len(excerpts) |->
     [heading |-> JsString(excerpts[i].heading), text |-> JsString(excerpts[i].text)]]

ForwardIdle ==
  /\ fHandler = "none"
  /\ fIncoming = <<>>
  /\ fForwarded = <<>>
  /\ fPc = "off"

\* handleChat gets its hits from bestMatches with N = 3; a handler gets what the
\* request holds.
ForwardInit ==
  /\ fHandler \in Forwarders
  /\ \E n \in 1..MaxIncoming, len \in TextLengths :
       /\ fHandler = "handleChat" => n <= ChatTop
       /\ fIncoming = Incoming(n, len)
  /\ fForwarded = <<>>
  /\ fPc = "call"

\* The function builds its request from the excerpts.
CallForward ==
  /\ fPc = "call"
  /\ fForwarded' =
       CASE fHandler = "handleChat" -> AskBody(<<"q">>, fIncoming).excerpts
         [] fHandler = "analytics.js" -> ForwardClean(AsValues(fIncoming))
         [] fHandler = "ask.js protected" -> ForwardProtected(AsValues(fIncoming))
         [] fHandler = "part_000" -> ForwardHourly(AsValues(fIncoming))
         [] fHandler = "ask.js default" -> ForwardAll(AsValues(fIncoming))
  /\ fPc' = "done"
  /\ UNCHANGED <<fHandler, fIncoming>>
  /\ UNCHANGED outsideForward

ForwardNext == CallForward

(* ------------------------------------------------------------------ *)
(* bestMatches over the objects of the page (docs.js, lines 223-243)   *)
(* ------------------------------------------------------------------ *)

\* expandTokens (lines 197-214), reading the table it is given.
TokensOver(table, question) ==
  LET q == normalize(question)
  IN IF q.threw THEN [threw |-> TRUE, val |-> <<>>]
     ELSE LET raw == FilterBoolean(SplitSpace(q.val, <<>>))
              set == ExpandGroups(SetAddAll(<<>>, raw), raw, table)
          IN [threw |-> FALSE, val |-> Slice(SelectSeq(set, LongEnough), MaxTokens)]

\* The objects parseAgreement returns, put on the heap: they have no score.
AllocChunks(heap, chunks) ==
  heap \o [i \in 1..Len(chunks) |->
             [heading |-> chunks[i].heading, text |-> chunks[i].text,
              scored |-> FALSE, score |-> 0]]

ScoreOf(c, tokens) == SumMatches(Hay(c), tokens)

\* The map callback writing the score into the section itself and returning it.
ScoreInPlace(heap, ids, tokens) ==
  [heap |-> [o \in 1..Len(heap) |->
               IF o \in Range(ids)
               THEN [heap[o] EXCEPT !.scored = TRUE, !.score = ScoreOf(heap[o], tokens)]
               ELSE heap[o]],
   ids |-> ids]

\* Lines 227-237: .map((c) => ({ ...c, score })) makes a new object of every
\* section and leaves the section alone.
ScoreCopies(heap, ids, tokens) ==
  [heap |-> heap \o [i \in 1..Len(ids) |->
                       [heap[ids[i]] EXCEPT !.scored = TRUE,
                                            !.score = ScoreOf(heap[ids[i]], tokens)]],
   ids |-> [i \in 1..Len(ids) |-> Len(heap) + i]]

\* Lines 238-240: the objects of positive score, the higher score first.
RankedIds(mapped) ==
  LET refs == [i \in 1..Len(mapped.ids) |->
                 [id |-> mapped.ids[i], score |-> mapped.heap[mapped.ids[i]].score]]
      scored == SortByScore(SelectSeq(refs, HasScore), <<>>)
  IN [i \in 1..Len(scored) |-> scored[i].id]

\* Lines 223-243 on the heap: the heap and the table after the call, the sections
\* parsed, the objects returned.
HeapBestMatches(heap, table, text, question, top) ==
  LET parsed == parseAgreement(text)
      chunks == [i \in 1..Len(parsed) |-> Len(heap) + i]
      tokens == TokensOver(table, question)
  IN IF tokens.threw
     THEN [heap |-> AllocChunks(heap, parsed), table |-> table, chunks |-> chunks,
           out |-> <<>>, threw |-> TRUE]
     ELSE CHOOSE r \in
            {[heap |-> mapped.heap, table |-> table, chunks |-> chunks,
              out |-> Slice(RankedIds(mapped), TopOf(top)), threw |-> FALSE] :
               mapped \in {ScoreCopies(AllocChunks(heap, parsed), chunks, tokens.val)}} :
            TRUE

\* Number of calls of bestMatches in one behaviour.
MaxPureCalls == 3

\* Two documents of two sections.
PureTexts ==
  {JsString(MatchDoc(<<[head |-> <<"a">>, body |-> <<"s", "n", "o", "w">>],
                       [head |-> <<"b">>, body |-> <<"c", "a", "t", " ", "s", "n", "o", "w",
                                                      " ", "s", "n", "o", "w">>]>>, 1)),
   JsString(MatchDoc(<<[head |-> <<"a">>, body |-> <<"c", "a", "t">>],
                       [head |-> <<"b">>, body |-> <<"d", "o", "g">>]>>, 1))}

PureQuestions == {JsString(<<"s", "n", "o", "w">>), JsString(<<"c", "a", "t">>), JsNull}

PureTops == {JsUndefined, JsNumber(1)}

\* The value of the objects ids.
ValueOf(heap, ids) ==
  [i \in 1..Len(ids) |->
     [heading |-> heap[ids[i]].heading, text |-> heap[ids[i]].text,
      score |-> heap[ids[i]].score]]

PureIdle ==
  /\ yHeap = <<>>
  /\ ySynonyms = <<>>
  /\ yIn = <<>>
  /\ yBase = 0
  /\ yChunks = <<>>
  /\ yOut = <<>>
  /\ yThrew = FALSE
  /\ yFirst = {}
  /\ yCalls = 0

PureInit ==
  /\ yHeap = <<>>
  /\ ySynonyms = SYNONYMS
  /\ yIn = <<>>
  /\ yBase = 0
  /\ yChunks = <<>>
  /\ yOut = <<>>
  /\ yThrew = FALSE
  /\ yFirst = {}
  /\ yCalls = 0

\* A call of bestMatches.
CallOnHeap(text, question, top) ==
  /\ yCalls < MaxPureCalls
  /\ \E r \in {HeapBestMatches(yHeap, ySynonyms, text, question, top)} :
        /\ yHeap' = r.heap
        /\ ySynonyms' = r.table
        /\ yChunks' = r.chunks
        /\ yOut' = r.out
        /\ yThrew' = r.threw
        /\ yFirst' = IF \E e \in yFirst : e.in = <<text, question, top>>
                     THEN yFirst
                     ELSE yFirst \cup {[in |-> <<text, question, top>>, call |-> yCalls + 1,
                                        threw |-> r.threw, val |-> ValueOf(r.heap, r.out)]}
  /\ yIn' = <<text, question, top>>
  /\ yBase' = Len(yHeap)
  /\ yCalls' = yCalls + 1
  /\ UNCHANGED outsidePure

PureNext ==
  \E text \in PureTexts, question \in PureQuestions, top \in PureTops :
    CallOnHeap(text, question, top)
(* ------------------------------------------------------------------ *)
(* Analytics: tracking events                                          *)
(* ------------------------------------------------------------------ *)

\* Number of calls of track in one behaviour.
MaxTracked == 2

SEARCH == <<"s", "e", "a", "r", "c", "h">>

PAGE_VIEW == <<"p", "a", "g", "e", "_", "v", "i", "e", "w">>

\* this.sessionId after init().
SessionId == JsString(<<"s", "1">>)

\* The calls of track: a search with a query that has markup, a search whose
\* query is undefined, a page view without data.
TrackedCalls ==
  {[event |-> JsString(SEARCH), data |-> <<<<"query", JsString(<<"<", "b", ">", "q">>)>>>>],
   [event |-> JsString(SEARCH), data |-> <<<<"query", JsUndefined>>>>],
   [event |-> JsString(PAGE_VIEW), data |-> <<>>]}

\* An event tracked before the behaviour starts, as the item and the store hold it.
FillerPayload == JsonRoundTrip(Payload(JsString(<<"f">>), <<>>, SessionId, 0))

FillerEvent == ServerEvent(FillerPayload, 0)

\* The item fw_analytics: absent, or the JSON text of the list of events.
NoItem == [present |-> FALSE, events |-> <<>>]

Item(events) == [present |-> TRUE, events |-> events]

\* part_003, lines 39-44: the list setItem writes as JSON text after the payload
\* was added; stored is the list parsed from the item, [] when there is none.
StoreLocally(stored, payload) ==
  LET list == Track(stored, payload)
  IN [i \in 1..Len(list) |-> JsonRoundTrip(list[i])]

EventIdle ==
  /\ analyticsStore = <<>>
  /\ aPreload = 0
  /\ aArrived = <<>>
  /\ fwAnalytics = NoItem
  /\ tPreload = 0
  /\ tTracked = <<>>
  /\ tPc = "off"
  /\ tPayload = <<>>
  /\ tSyncs = <<>>
  /\ tSettled = {}
  /\ tCalls = 0

\* The store and the item when the behaviour starts: empty, one event short of
\* the cap, or at the cap.
EventInit ==
  /\ \E short \in {MAX_EVENTS, 1, 0} :
       /\ aPreload = MAX_EVENTS - short
       /\ tPreload = (IF short = MAX_EVENTS THEN 0 ELSE MAX_LOCAL_EVENTS - short)
  /\ analyticsStore = RunsOf(FillerEvent, aPreload)
  /\ aArrived = analyticsStore
  /\ fwAnalytics = (IF tPreload = 0 THEN NoItem ELSE Item(Fill(FillerPayload, tPreload)))
  /\ tTracked = <<>>
  /\ tPc = "idle"
  /\ tPayload = <<>>
  /\ tSyncs = <<>>
  /\ tSettled = {}
  /\ tCalls = 0

\* part_003, lines 30-44: track(event, data) up to its call of _sync; the payload
\* is in the item before _sync is called.
TrackCall(event, data) ==
  /\ tPc = "idle"
  /\ tCalls < MaxTracked
  /\ LET payload == Payload(event, data, SessionId, now)
         stored == fwAnalytics.events
     IN /\ fwAnalytics' = Item(StoreLocally(stored, payload))
        /\ tPayload' = payload
        /\ tTracked' = Append(tTracked, payload)
  /\ tPc' = "stored"
  /\ tCalls' = tCalls + 1
  /\ UNCHANGED <<analyticsStore, aPreload, aArrived, tPreload, tSyncs, tSettled>>
  /\ UNCHANGED outsideEvents

\* part_003, lines 47 and 55-61: track calls _sync, which calls fetch and awaits
\* it; track returns.
TrackSync ==
  /\ tPc = "stored"
  /\ tSyncs' = Append(tSyncs, [payload |-> tPayload, stage |-> "sent"])
  /\ tPc' = "idle"
  /\ UNCHANGED <<analyticsStore, aPreload, aArrived, fwAnalytics, tPreload, tTracked,
                 tPayload, tSettled, tCalls>>
  /\ UNCHANGED outsideEvents

\* The calls of _sync without the i-th.
WithoutSync(i) == SubSeq(tSyncs, 1, i - 1) \o SubSeq(tSyncs, i + 1, Len(tSyncs))

Settled(i, how) == tSettled \cup {how}

\* analytics.js, lines 24-50: the POST of the i-th call reaches the analytics
\* function, which pushes the event and caps its store.
ServerPost(i) ==
  /\ tPc = "idle"
  /\ i \in 1..Len(tSyncs)
  /\ tSyncs[i].stage = "sent"
  /\ LET body == JsonRoundTrip(tSyncs[i].payload)
         event == ServerEvent(body, clock)
     IN /\ analyticsStore' = PushEvent(analyticsStore, event)
        /\ aArrived' = RunsPush(aArrived, event)
  /\ tSyncs' = [tSyncs EXCEPT ![i].stage = "served"]
  /\ UNCHANGED <<aPreload, fwAnalytics, tPreload, tTracked, tPc, tPayload, tSettled, tCalls>>
  /\ UNCHANGED outsideEvents

\* part_003, lines 57-61: the fetch of the i-th call resolves with the response
\* of the function, and _sync ends.
SyncResolves(i) ==
  /\ tPc = "idle"
  /\ i \in 1..Len(tSyncs)
  /\ tSyncs[i].stage = "served"
  /\ tSyncs' = WithoutSync(i)
  /\ tSettled' = Settled(i, "resolved")
  /\ UNCHANGED <<analyticsStore, aPreload, aArrived, fwAnalytics, tPreload, tTracked, tPc,
                 tPayload, tCalls>>
  /\ UNCHANGED outsideEvents

\* The fetch resolves with an error status the platform gives without running
\* the function; _sync ends as it does for any response.
SyncFails(i) ==
  /\ tPc = "idle"
  /\ i \in 1..Len(tSyncs)
  /\ tSyncs[i].stage = "sent"
  /\ tSyncs' = WithoutSync(i)
  /\ tSettled' = Settled(i, "failed")
  /\ UNCHANGED <<analyticsStore, aPreload, aArrived, fwAnalytics, tPreload, tTracked, tPc,
                 tPayload, tCalls>>
  /\ UNCHANGED outsideEvents

\* The catch block that removes the event of the failed call from the item.
SyncRejectsForgets(i) ==
  /\ tPc = "idle"
  /\ i \in 1..Len(tSyncs)
  /\ tSyncs' = WithoutSync(i)
  /\ tSettled' = Settled(i, "rejected")
  /\ fwAnalytics' = Item(SelectSeq(fwAnalytics.events,
                                   LAMBDA e : e # JsonRoundTrip(tSyncs[i].payload)))
  /\ UNCHANGED <<analyticsStore, aPreload, aArrived, tPreload, tTracked, tPc, tPayload, tCalls>>
  /\ UNCHANGED outsideEvents

\* part_003, lines 62-64: the fetch of the i-th call rejects, before or after the
\* request has reached the function; the catch block does nothing.
SyncRejects(i) ==
  /\ tPc = "idle"
  /\ i \in 1..Len(tSyncs)
  /\ tSyncs' = WithoutSync(i)
  /\ tSettled' = Settled(i, "rejected")
  /\ UNCHANGED <<analyticsStore, aPreload, aArrived, fwAnalytics, tPreload, tTracked, tPc,
                 tPayload, tCalls>>
  /\ UNCHANGED outsideEvents

\* The calls of _sync that can be awaiting their fetch at once.
SyncSlots == 1..MaxTracked

EventNext ==
  \/ \E call \in TrackedCalls : TrackCall(call.event, call.data)
  \/ TrackSync
  \/ \E i \in SyncSlots : ServerPost(i)
  \/ \E i \in SyncSlots : SyncResolves(i)
  \/ \E i \in SyncSlots : SyncFails(i)
  \/ \E i \in SyncSlots : SyncRejects(i)

(* ------------------------------------------------------------------ *)
(* debounce (src/src/js/app.js, lines 196-202)                         *)
(* ------------------------------------------------------------------ *)

\* Number of calls of the debounced function in one behaviour.
MaxDebounced == 3

\* Number of advances of the time in one behaviour of debounce.
MaxDebounceTicks == 3

\* The delays the function is debounced with.
Delays == {0, 2}

\* The arguments of the calls.
DebounceArgs == {<<"a">>, <<"b">>}

DebounceIdle ==
  /\ dMs = 0
  /\ dTimer = 0
  /\ dTimers = {}
  /\ dTime = 0
  /\ dTicks = MaxDebounceTicks
  /\ dCalled = <<>>
  /\ dInvoked = <<>>

\* The state after debounce(fn, ms) has returned the debounced function.
DebounceInit ==
  /\ dMs \in Delays
  /\ dTimer = 0
  /\ dTimers = {}
  /\ dTime = 0
  /\ dTicks = 0
  /\ dCalled = <<>>
  /\ dInvoked = <<>>

\* setTimeout(callback, ms) at the time t: the id of the new timer is above the
\* ids given before; the timer is due ms later.
SetTimeout(timers, id, args, ms, t) == timers \cup {[id |-> id, due |-> t + ms, args |-> args]}

\* clearTimeout(id): the timer of that id is removed, if there is one.
ClearTimeout(timers, id) == {x \in timers : x.id # id}

\* The debounced function without its clearTimeout.
DebouncedCallNoClear(args) ==
  /\ Len(dCalled) < MaxDebounced
  /\ LET id == Len(dCalled) + 1
     IN /\ dTimers' = SetTimeout(dTimers, id, args, dMs, dTime)
        /\ dTimer' = id
  /\ dCalled' = Append(dCalled, [at |-> dTime, args |-> args])
  /\ UNCHANGED <<dMs, dTime, dTicks, dInvoked>>
  /\ UNCHANGED outsideDebounce

\* Lines 198-201: a call of the debounced function with the arguments args.
DebouncedCall(args) ==
  /\ Len(dCalled) < MaxDebounced
  /\ LET id == Len(dCalled) + 1
     IN /\ dTimers' = SetTimeout(ClearTimeout(dTimers, dTimer), id, args, dMs, dTime)
        /\ dTimer' = id
  /\ dCalled' = Append(dCalled, [at |-> dTime, args |-> args])
  /\ UNCHANGED <<dMs, dTime, dTicks, dInvoked>>
  /\ UNCHANGED outsideDebounce

\* Line 200: a timer that is due is run by the event loop, at its due time or
\* later, and its callback invokes fn with the arguments of its call.
TimerRuns(x) ==
  /\ x \in dTimers
  /\ dTime >= x.due
  /\ dTimers' = dTimers \ {x}
  /\ dInvoked' = Append(dInvoked, [at |-> dTime, args |-> x.args, after |-> Len(dCalled)])
  /\ UNCHANGED <<dMs, dTimer, dTime, dTicks, dCalled>>
  /\ UNCHANGED outsideDebounce

\* Time passes.
DebounceTick ==
  /\ dTicks < MaxDebounceTicks
  /\ dTime' = dTime + 1
  /\ dTicks' = dTicks + 1
  /\ UNCHANGED <<dMs, dTimer, dTimers, dCalled, dInvoked>>
  /\ UNCHANGED outsideDebounce

DebounceNext ==
  \/ \E args \in DebounceArgs : DebouncedCall(args)
  \/ \E x \in dTimers : TimerRuns(x)
  \/ DebounceTick

(* ------------------------------------------------------------------ *)
(* Error responses that relay an upstream failure                      *)
(* ------------------------------------------------------------------ *)

MaxRelayCalls == 2
MaxUpstreamLen == 400

\* detail.slice(0, 300) of the protected ask functions.
MaxDetail == 300

\* A message of n characters whose last character differs from the rest.
MessageOf(n) == [i \in 1..n |-> IF i = n THEN "!" ELSE "e"]

UpstreamLens == {0, 1, MaxDetail - 1, MaxDetail, MaxDetail + 1, MaxUpstreamLen}

\* The error envelope of the upstream API around its message:
\* {"error":{"message":"..."}}.
ErrorEnvelope(message) ==
  <<"{", "\"", "e", "r", "r", "o", "r", "\"", ":", "{", "\"", "m", "e", "s", "s",
    "a", "g", "e", "\"", ":", "\"">> \o message \o <<"\"", "}", "}">>

\* What the upstream can do with a fetch: answer OK, answer with an error
\* status and a body (the JSON envelope of a message, or the bare message as
\* text; reading the body may fail), or fail so that fetch throws an
\* exception with a message.
Upstreams ==
  {[kind |-> "ok", message |-> <<>>, json |-> TRUE, readable |-> TRUE]}
    \cup {[kind |-> "status", message |-> MessageOf(n), json |-> j, readable |-> r] :
            n \in UpstreamLens, j \in BOOLEAN, r \in BOOLEAN}
    \cup {[kind |-> "throws", message |-> MessageOf(n), json |-> FALSE, readable |-> FALSE] :
            n \in UpstreamLens}

UpstreamBody(up) == IF up.json THEN ErrorEnvelope(up.message) ELSE up.message

\* await response.text().catch(() => fallback)
TextOr(up, fallback) == IF up.readable THEN UpstreamBody(up) ELSE fallback

\* err?.message || fallback
MessageOr(up, fallback) == IF up.message = <<>> THEN fallback ELSE up.message

\* await r.json().catch(() => ({})), then data?.error?.message || fallback
ErrorMessageOr(up, fallback) ==
  IF up.readable /\ up.json /\ up.message # <<>> THEN up.message ELSE fallback

\* JSON.stringify of await r.json().catch(() => ({}))
DataJson(up) == IF up.readable /\ up.json THEN ErrorEnvelope(up.message) ELSE <<"{", "}">>

NoDetail == <<"n", "o", "n", "e">>

RelayResponse(status, error, detail) ==
  [status |-> status, error |-> error, detail |-> detail, hasDetail |-> TRUE]

PlainResponse(status, error) ==
  [status |-> status, error |-> error, detail |-> <<>>, hasDetail |-> FALSE]

OkResponse == PlainResponse(200, <<>>)

GEMINI_API_ERROR == <<"G", "e", "m", "i", "n", "i", " ", "A", "P", "I", " ", "e", "r", "r", "o", "r">>
GEMINI_ERROR == <<"G", "e", "m", "i", "n", "i", " ", "e", "r", "r", "o", "r">>
SENDGRID_ERROR == <<"S", "e", "n", "d", "G", "r", "i", "d", " ", "e", "r", "r", "o", "r">>
UNKNOWN_ERROR == <<"U", "n", "k", "n", "o", "w", "n", " ", "e", "r", "r", "o", "r">>
UNKNOWN_DETAILS == <<"U", "n", "k", "n", "o", "w", "n">>
AI_UNAVAILABLE ==
  <<"A", "I", " ", "s", "e", "r", "v", "i", "c", "e", " ", "u", "n", "a", "v", "a",
    "i", "l", "a", "b", "l", "e">>
AI_TEMPORARILY ==
  <<"A", "I", " ", "s", "e", "r", "v", "i", "c", "e", " ", "t", "e", "m", "p", "o",
    "r", "a", "r", "i", "l", "y", " ", "u", "n", "a", "v", "a", "i", "l", "a", "b",
    "l", "e">>

\* The protected ask function, from the fetch to its response.
ProtectedRelay(up) ==
  CASE up.kind = "ok" -> OkResponse
    [] up.kind = "status" ->
         RelayResponse(502, GEMINI_API_ERROR, Slice(TextOr(up, <<>>), MaxDetail))
    [] OTHER -> PlainResponse(500, AI_UNAVAILABLE)

\* The hourly ask function, from the fetch to its response.
HourlyRelay(up) ==
  CASE up.kind = "ok" -> OkResponse
    [] up.kind = "status" ->
         RelayResponse(502, GEMINI_API_ERROR, Slice(TextOr(up, <<>>), MaxDetail))
    [] OTHER -> PlainResponse(500, AI_TEMPORARILY)

\* The default export of ask.js, from the fetch to its response.
DefaultRelay(up) ==
  CASE up.kind = "ok" -> OkResponse
    [] up.kind = "status" -> RelayResponse(502, GEMINI_ERROR, DataJson(up))
    [] OTHER -> PlainResponse(500, MessageOr(up, UNKNOWN_ERROR))

\* The ask function of analytics.js, from the fetch to its response.
AskRelay(up) ==
  CASE up.kind = "ok" -> OkResponse
    [] up.kind = "status" ->
         RelayResponse(502, GEMINI_ERROR, ErrorMessageOr(up, UNKNOWN_DETAILS))
    [] OTHER -> PlainResponse(500, MessageOr(up, UNKNOWN_ERROR))

\* The notify function, from the fetch to its response.
NotifyRelay(up) ==
  CASE up.kind = "ok" -> OkResponse
    [] up.kind = "status" -> RelayResponse(502, SENDGRID_ERROR, TextOr(up, UNKNOWN_ERROR))
    [] OTHER -> PlainResponse(500, MessageOr(up, UNKNOWN_ERROR))

RelayHandlers == {"protected", "hourly", "default", "ask", "notify"}

RelayOf(handler, up) ==
  CASE handler = "protected" -> ProtectedRelay(up)
    [] handler = "hourly" -> HourlyRelay(up)
    [] handler = "default" -> DefaultRelay(up)
    [] handler = "ask" -> AskRelay(up)
    [] OTHER -> NotifyRelay(up)

NoUpstream == [kind |-> "none", message |-> <<>>, json |-> FALSE, readable |-> FALSE]

RelayIdle ==
  /\ uPc = "idle"
  /\ uHandler = "none"
  /\ uUpstream = NoUpstream
  /\ uResp = PlainResponse(0, <<>>)
  /\ uCalls = MaxRelayCalls

RelayInit ==
  /\ uPc = "idle"
  /\ uHandler = "none"
  /\ uUpstream = NoUpstream
  /\ uResp = PlainResponse(0, <<>>)
  /\ uCalls = 0

\* A valid request reaches one of the functions, which calls its upstream.
RelayFetch(handler) ==
  /\ uPc = "idle"
  /\ uCalls < MaxRelayCalls
  /\ uPc' = "awaiting"
  /\ uHandler' = handler
  /\ uUpstream' = NoUpstream
  /\ uCalls' = uCalls + 1
  /\ UNCHANGED <<uResp, outsideRelay>>

\* The upstream settles the fetch and the function returns its response.
RelaySettles(up) ==
  /\ uPc = "awaiting"
  /\ uPc' = "idle"
  /\ uUpstream' = up
  /\ uResp' = RelayOf(uHandler, up)
  /\ UNCHANGED <<uHandler, uCalls, outsideRelay>>

RelayNext ==
  \/ \E handler \in RelayHandlers : RelayFetch(handler)
  \/ \E up \in Upstreams : RelaySettles(up)

(* ------------------------------------------------------------------ *)
(* The service worker                                                  *)
(* ------------------------------------------------------------------ *)

MaxFetchEvents == 2

INDEX_URL ==
  <<"/", "i", "n", "d", "e", "x", ".", "h", "t", "m", "l">>

APP_URL ==
  <<"/", "s", "r", "c", "/", "j", "s", "/", "a", "p", "p", ".", "j", "s">>

ASK_URL ==
  <<"/", ".", "n", "e", "t", "l", "i", "f", "y", "/", "f", "u", "n", "c", "t", "i",
    "o", "n", "s", "/", "a", "s", "k">>

DOC_URL ==
  <<"h", "t", "t", "p", "s", ":", "/", "/", "d", "o", "c", "s", ".", "g", "o", "o",
    "g", "l", "e", ".", "c", "o", "m", "/", "d">>

GEMINI_URL ==
  <<"h", "t", "t", "p", "s", ":", "/", "/", "g", "e", "n", "e", "r", "a", "t", "i",
    "v", "e", "l", "a", "n", "g", "u", "a", "g", "e", ".", "g", "o", "o", "g", "l",
    "e", "a", "p", "i", "s", ".", "c", "o", "m", "/", "v", "1">>

FUNCTIONS_PART ==
  <<"/", ".", "n", "e", "t", "l", "i", "f", "y", "/", "f", "u", "n", "c", "t", "i",
    "o", "n", "s", "/">>

DOCS_PART ==
  <<"d", "o", "c", "s", ".", "g", "o", "o", "g", "l", "e", ".", "c", "o", "m">>

GEMINI_PART ==
  <<"g", "e", "n", "e", "r", "a", "t", "i", "v", "e", "l", "a", "n", "g", "u", "a",
    "g", "e", ".", "g", "o", "o", "g", "l", "e", "a", "p", "i", "s", ".", "c", "o",
    "m">>

\* The URLs the page requests: a core asset, a script that is not a core
\* asset, the ask function, the document export and the Gemini API.
SwUrls == {INDEX_URL, APP_URL, ASK_URL, DOC_URL, GEMINI_URL}

SwMethods == {"GET", "POST"}

\* ASSETS_TO_CACHE, as far as the page requests them.
ASSETS_TO_CACHE == {INDEX_URL}

OFFLINE_TEXT == "Offline - please reconnect to the internet."

\* String.prototype.includes
UrlIncludes(url, part) ==
  \E i \in 1..(Len(url) - Len(part) + 1) : SubSeq(url, i, i + Len(part) - 1) = part

\* The test of the fetch listener that leaves a request to the browser.
SwSkips(method, url) ==
  \/ method # "GET"
  \/ UrlIncludes(url, FUNCTIONS_PART)
  \/ UrlIncludes(url, DOCS_PART)
  \/ UrlIncludes(url, GEMINI_PART)

NoCached == [status |-> 0, body |-> "none"]

\* The response of the network to the n-th fetch; the install step is fetch 0.
Bodies == <<"v0", "v1", "v2", "v3", "v4">>
NetResponse(status, n) == [status |-> status, body |-> Bodies[n + 1]]

OfflineResponse == [status |-> 503, body |-> OFFLINE_TEXT]

\* The statuses the network answers with.
NetStatuses == {200, 404}

\* cache.addAll(ASSETS_TO_CACHE) of the install listener, all fetched OK.
AddAll(cache, assets) ==
  [url \in DOMAIN cache |-> IF url \in assets THEN NetResponse(200, 0) ELSE cache[url]]

\* cache.put(request, response)
CachePut(cache, url, response) == [cache EXCEPT ![url] = response]

\* caches.match(request), then cached || new Response('Offline ...', 503)
MatchOrOffline(cache, url) == IF cache[url] # NoCached THEN cache[url] ELSE OfflineResponse

SwEvent(method, url, stage) ==
  [method |-> method, url |-> url, stage |-> stage, net |-> "none",
   fetched |-> NoCached, answer |-> NoCached, answered |-> FALSE]

SwIdle ==
  /\ swCache = [url \in SwUrls |-> NoCached]
  /\ swEvents = <<>>

\* The worker is installed and active: the core assets are cached.
SwInit ==
  /\ swCache = AddAll([url \in SwUrls |-> NoCached], ASSETS_TO_CACHE)
  /\ swEvents = <<>>

\* The fetch listener up to respondWith: a skipped request is left to the
\* browser, any other starts fetch(event.request).
SwFetchEvent(method, url) ==
  /\ Len(swEvents) < MaxFetchEvents
  /\ swEvents' = Append(swEvents,
       IF SwSkips(method, url)
       THEN SwEvent(method, url, "skipped")
       ELSE [SwEvent(method, url, "fetching") EXCEPT !.net = "pending"])
  /\ UNCHANGED <<swCache, outsideWorker>>

\* As SwNetworkResolves, but a response of any status is put into the cache.
SwNetworkResolvesPutsAll(i, status) ==
  /\ swEvents[i].stage = "fetching"
  /\ LET response == NetResponse(status, i)
     IN swEvents' = [swEvents EXCEPT ![i] =
          [@ EXCEPT !.net = "resolved", !.fetched = response, !.answer = response,
                    !.answered = TRUE, !.stage = "putting"]]
  /\ UNCHANGED <<swCache, outsideWorker>>

\* The fetch resolves: the response is returned, and a 200 is cloned for the
\* cache.
SwNetworkResolves(i, status) ==
  /\ swEvents[i].stage = "fetching"
  /\ LET response == NetResponse(status, i)
     IN swEvents' = [swEvents EXCEPT ![i] =
          [@ EXCEPT !.net = "resolved", !.fetched = response, !.answer = response,
                    !.answered = TRUE,
                    !.stage = IF response.status = 200 THEN "putting" ELSE "done"]]
  /\ UNCHANGED <<swCache, outsideWorker>>

\* caches.open(CACHE_NAME) has resolved: the clone is put into the cache.
SwCachePut(i) ==
  /\ swEvents[i].stage = "putting"
  /\ swCache' = CachePut(swCache, swEvents[i].url, swEvents[i].fetched)
  /\ swEvents' = [swEvents EXCEPT ![i].stage = "done"]
  /\ UNCHANGED outsideWorker

\* The fetch rejects: the catch handler asks the caches.
SwNetworkRejects(i) ==
  /\ swEvents[i].stage = "fetching"
  /\ swEvents' = [swEvents EXCEPT ![i].net = "rejected", ![i].stage = "matching"]
  /\ UNCHANGED <<swCache, outsideWorker>>

\* caches.match has resolved: the cached response, or the offline response.
SwCacheMatch(i) ==
  /\ swEvents[i].stage = "matching"
  /\ swEvents' = [swEvents EXCEPT ![i].answer = MatchOrOffline(swCache, swEvents[i].url),
                                  ![i].answered = TRUE, ![i].stage = "done"]
  /\ UNCHANGED <<swCache, outsideWorker>>

SwSlots == 1..MaxFetchEvents

SwNext ==
  \/ \E method \in SwMethods, url \in SwUrls : SwFetchEvent(method, url)
  \/ \E i \in SwSlots, status \in NetStatuses : i <= Len(swEvents) /\ SwNetworkResolves(i, status)
  \/ \E i \in SwSlots : i <= Len(swEvents) /\ SwCachePut(i)
  \/ \E i \in SwSlots : i <= Len(swEvents) /\ SwNetworkRejects(i)
  \/ \E i \in SwSlots : i <= Len(swEvents) /\ SwCacheMatch(i)

(* ------------------------------------------------------------------ *)
(* Properties of parseAgreement                                        *)
(* ------------------------------------------------------------------ *)

\* The text parseAgreement works on: (text || '').
SourceText == IF pIn.t = "string" THEN pIn.v ELSE <<>>

SourceLines == SplitLines(SourceText, <<>>)

IsHeadingLine(i) == isHeading(Trim(SourceLines[i]))

\* Lines i and j lie between the same two headings.
SameSpan(i, j) ==
  \A k \in (IF i < j THEN i ELSE j)..(IF i < j THEN j ELSE i) : ~IsHeadingLine(k)

\* Line i is no heading and its span holds a line that is not whitespace only.
IsKeptLine(i) ==
  /\ ~IsHeadingLine(i)
  /\ \E j \in 1..Len(SourceLines) : SameSpan(i, j) /\ Trim(SourceLines[j]) # <<>>

\* The lines of SourceLines from i on whose index is in keep, each followed by "\n".
RECURSIVE JoinLines(_, _)
JoinLines(i, keep) ==
  IF i > Len(SourceLines) THEN <<>>
  ELSE (IF i \in keep THEN SourceLines[i] \o <<"\n">> ELSE <<>>) \o JoinLines(i + 1, keep)

NonHeadingLines == {i \in 1..Len(SourceLines) : ~IsHeadingLine(i)}

KeptLines == {i \in 1..Len(SourceLines) : IsKeptLine(i)}

RECURSIVE ConcatBodies(_)
ConcatBodies(chunks) ==
  IF chunks = <<>> THEN <<>> ELSE Head(chunks).text \o ConcatBodies(Tail(chunks))

\* The heading line that opens the span of line i, 0 when the span opens the document.
SpanStart(i) ==
  IF \E h \in 1..i : IsHeadingLine(h)
  THEN CHOOSE h \in 1..i : IsHeadingLine(h) /\ \A k \in (h + 1)..i : ~IsHeadingLine(k)
  ELSE 0

\* The spans that hold a kept line, named by the line that opens them.
KeptSpans == {SpanStart(i) : i \in KeptLines}

\* The c-th kept span in document order.
KeptSpan(c) == CHOOSE h \in KeptSpans : Cardinality({x \in KeptSpans : x <= h}) = c

\* s without the line terminators that end it.
RECURSIVE StripFinalNewlines(_)
StripFinalNewlines(s) ==
  IF s # <<>> /\ s[Len(s)] = "\n" THEN StripFinalNewlines(SubSeq(s, 1, Len(s) - 1)) ELSE s

IsFallback == pOut = <<[heading |-> AGREEMENT, text |-> SourceText]>>

\* C4: parseAgreement returns at least one section and every section's heading is
\* non-empty, whatever the input (empty, null, whitespace-only, heading-only, headingless).
C4_AtLeastOneSection ==
  pPc = "done" =>
    /\ Len(pOut) >= 1
    /\ \A i \in 1..Len(pOut) : pOut[i].heading # <<>>

\* A document that parses into two sections.
C4_Witness ==
  /\ pPc = "done"
  /\ Len(pOut) = 2
  /\ pOut[1].heading = INTRODUCTION
  /\ pOut[2].heading # <<>>

\* C5 as stated: the bodies, concatenated in sequence order, are all the non-heading
\* lines of the document in their order, blank and whitespace-only lines included
\* (line terminators at the very end are left out of the comparison, and so is the
\* fallback section, whose body is the whole input).
C5_AllNonHeadingLinesKept ==
  pPc = "done" /\ ~IsFallback =>
    StripFinalNewlines(ConcatBodies(pOut)) = StripFinalNewlines(JoinLines(1, NonHeadingLines))

\* C5 as amended: when some section is produced, the bodies, concatenated in sequence
\* order, are the non-heading lines whose span (the lines between two consecutive
\* headings) holds some line that is not whitespace only, in their order; a span of
\* blank and whitespace-only lines is dropped whole; the sections are the kept spans
\* in document order, each under its own heading.
C5_KeptLinesInOrder ==
  pPc = "done" /\ KeptLines # {} =>
    /\ ConcatBodies(pOut) = JoinLines(1, KeptLines)
    /\ Len(pOut) = Cardinality(KeptSpans)
    /\ \A c \in 1..Len(pOut) :
         LET h == KeptSpan(c)
         IN /\ pOut[c].heading = (IF h = 0 THEN INTRODUCTION ELSE Trim(SourceLines[h]))
            /\ pOut[c].text = JoinLines(1, {i \in NonHeadingLines : SpanStart(i) = h})

\* A document with a kept section and, before it, a dropped span of blank lines.
C5_Witness ==
  /\ pPc = "done"
  /\ ~IsFallback
  /\ \E i, j \in 1..Len(SourceLines) :
       i < j /\ ~IsHeadingLine(i) /\ ~IsKeptLine(i) /\ IsKeptLine(j)

\* C6: when no line of the input is both a non-heading line and not whitespace only
\* (empty, null, whitespace-only and heading-only input), the result is the single
\* section AGREEMENT whose body is the input text ('' for null).
C6_FallbackSection ==
  pPc = "done" /\ (\A i \in 1..Len(SourceLines) : IsHeadingLine(i) \/ Trim(SourceLines[i]) = <<>>)
    => pOut = <<[heading |-> AGREEMENT, text |-> SourceText]>>

\* A document of one heading line and nothing else.
C6_Witness ==
  /\ pPc = "done"
  /\ SourceText # <<>>
  /\ \A i \in 1..Len(SourceLines) : IsHeadingLine(i)
  /\ pOut = <<[heading |-> AGREEMENT, text |-> SourceText]>>

(* ------------------------------------------------------------------ *)
(* Properties of isHeading                                             *)
(* ------------------------------------------------------------------ *)

TrimmedLine == Trim(hIn)

\* The line matches neither the ARTICLE/SECTION rule nor the numeric-outline rule.
OnlyAllCapsRule ==
  /\ TrimmedLine # <<>>
  /\ ~MatchesArticleSection(TrimmedLine)
  /\ ~MatchesNumericOutline(TrimmedLine)

\* C7 as stated: such a line is a heading exactly when it is entirely uppercase, 9 to
\* 70 characters long and made of uppercase letters, digits, spaces, hyphens, colons
\* and ampersands only.
C7_AllCaps9To70 ==
  hPc = "done" /\ OnlyAllCapsRule =>
    (hOut <=>
       /\ TrimmedLine = ToUpperCase(TrimmedLine)
       /\ Len(TrimmedLine) >= 9 /\ Len(TrimmedLine) <= 70
       /\ \A i \in 1..Len(TrimmedLine) :
            IsUpper(TrimmedLine[i]) \/ IsDigit(TrimmedLine[i])
              \/ TrimmedLine[i] \in {" ", "-", ":", "&"})

\* C7 as amended: such a line is a heading exactly when it is 9 to 71 characters long,
\* begins with an uppercase letter or a digit, and goes on with uppercase letters,
\* digits, whitespace characters, hyphens, colons and ampersands only; lines of 8
\* characters or less and of 72 or more are never headings by this rule.
C7_AllCaps9To71 ==
  hPc = "done" /\ OnlyAllCapsRule =>
    (hOut <=>
       /\ Len(TrimmedLine) >= 9 /\ Len(TrimmedLine) <= 71
       /\ IsUpper(TrimmedLine[1]) \/ IsDigit(TrimmedLine[1])
       /\ \A i \in 2..Len(TrimmedLine) :
            IsUpper(TrimmedLine[i]) \/ IsDigit(TrimmedLine[i]) \/ IsSpace(TrimmedLine[i])
              \/ TrimmedLine[i] \in {"-", ":", "&"})

\* An all-caps line of 71 characters, taken as a heading.
C7_Witness ==
  /\ hPc = "done"
  /\ OnlyAllCapsRule
  /\ Len(TrimmedLine) = 71
  /\ hOut

(* ------------------------------------------------------------------ *)
(* Properties of normalize                                             *)
(* ------------------------------------------------------------------ *)

RECURSIVE IsSubsequence(_, _)
IsSubsequence(a, b) ==
  IF a = <<>> THEN TRUE
  ELSE IF b = <<>> THEN FALSE
  ELSE IF Head(a) = Head(b) THEN IsSubsequence(Tail(a), Tail(b))
  ELSE IsSubsequence(a, Tail(b))

IsAsciiAlnum(c) == IsUpper(c) \/ IsLower(c) \/ IsDigit(c)

\* Letters and digits, those outside ASCII included (E acute, e acute, Kelvin sign).
IsLetterOrDigit(c) == IsAsciiAlnum(c) \/ c \in {"U+00C9", "U+00E9", "U+212A"}

\* Only a-z, 0-9 and single spaces, none leading or trailing.
IsNormalForm(s) ==
  /\ \A i \in 1..Len(s) : IsLower(s[i]) \/ IsDigit(s[i]) \/ s[i] = " "
  /\ s # <<>> => s[1] # " " /\ s[Len(s)] # " "
  /\ \A i \in 1..(Len(s) - 1) : ~(s[i] = " " /\ s[i + 1] = " ")

\* C8: normalize is idempotent.
C8_Idempotent == nPc = "twice" => nAgain = nOut

\* A string that normalize changes, into more than one word.
C8_Witness ==
  /\ nPc = "twice"
  /\ nIn.v # nOut.val
  /\ \E i \in 1..Len(nOut.val) : nOut.val[i] = " "

C10_NonStringsGiveEmpty ==
  nPc = "once" /\ nIn.t # "string" => nOut = [threw |-> FALSE, val |-> <<>>]

\* C10 as amended: for null, undefined and the other falsy non-strings (0, NaN,
\* false) normalize returns the empty string; for a truthy non-string (a non-zero
\* number, true, an object, an array) it throws a TypeError.
C10_FalsyGiveEmptyOthersThrow ==
  nPc = "once" /\ nIn.t # "string" =>
    IF \/ nIn.t \in {"null", "undefined"}
       \/ nIn.t = "number" /\ nIn.v \in {<<"0">>, <<"N", "a", "N">>}
       \/ nIn.t = "boolean" /\ nIn.v = <<"f", "a", "l", "s", "e">>
    THEN nOut = [threw |-> FALSE, val |-> <<>>]
    ELSE nOut.threw

\* normalize called with an object.
C10_Witness ==
  /\ nPc = "once"
  /\ nIn.t = "object"
  /\ nOut.threw

(* ------------------------------------------------------------------ *)
(* Properties of loadAgreement                                         *)
(* ------------------------------------------------------------------ *)

\* C1: a call that found a document in the cache and whose refresh failed resolves
\* to that document with status 'cached', never to the load-error state.
C1_StaleCopyServedAfterFailure ==
  \A p \in Callers :
    pc[p] = "done" /\ cached[p] # JsNull /\ caught[p] # "none" =>
      result[p] = [text |-> cached[p].v, status |-> "cached"]

\* C2: a call that finds a cached document younger than the freshness window returns
\* it without calling the document source; every other call calls it exactly once.
C2_FreshCopySkipsFetch ==
  \A p \in Callers :
    pc[p] = "done" =>
      IF /\ cached[p] # JsNull
         /\ cachedTime[p] # JsNull
         /\ startedAt[p] - ParseInt(cachedTime[p].v).n < CACHE_DURATION
      THEN fetched[p] = 0 /\ result[p] = [text |-> cached[p].v, status |-> "cached"]
      ELSE fetched[p] = 1

\* C3: a call always resolves, with status 'cached', 'loaded' or 'error'; 'error'
\* only when the fetch failed and the call found no cached copy; 'loaded' only when
\* the fetch succeeded.
C3_ErrorOnlyWithoutCachedCopy ==
  \A p \in Callers :
    pc[p] = "done" =>
      /\ result[p].status \in {"cached", "loaded", "error"}
      /\ result[p].status = "error" => caught[p] # "none" /\ cached[p] = JsNull
      /\ result[p].status = "loaded" => caught[p] = "none" /\ fetched[p] = 1

(* ------------------------------------------------------------------ *)
(* Properties of expandTokens                                          *)
(* ------------------------------------------------------------------ *)

\* The raw tokens of the normalized question.
RawTokens == FilterBoolean(SplitSpace(normalize(eIn).val, <<>>))

\* The concept key of a group and its synonyms.
GroupWords(g) == {g.k} \cup Range(g.arr)

\* The groups of the synonym table that some token of raw triggers: it equals the
\* concept key of the group or is one of its synonyms.
TriggeredGroups(raw) ==
  {n \in DOMAIN SYNONYMS : \E w \in Range(raw) : w \in GroupWords(SYNONYMS[n])}

\* The words of the groups of the synonym table that some token of raw triggers.
TriggeredWords(raw) == UNION {GroupWords(SYNONYMS[n]) : n \in TriggeredGroups(raw)}

\* C11: for every question, expandTokens returns a list without duplicate tokens,
\* every token in it has at least 3 characters, and it has at most 30 tokens.
C11_DistinctLongAtMost30 ==
  ePc = "done" =>
    /\ ~eOut.threw
    /\ \A i, j \in 1..Len(eOut.val) : i # j => eOut.val[i] # eOut.val[j]
    /\ \A i \in 1..Len(eOut.val) : Len(eOut.val[i]) >= 3
    /\ Len(eOut.val) <= 30

\* A question whose expansion is cut at 30 tokens.
C11_Witness ==
  /\ ePc = "done"
  /\ Len(eOut.val) = 30
  /\ Len(ExpandTokensNoCap(eIn).val) > 30

\* C12 as stated: for every group of the synonym table that a raw token of the
\* normalized question triggers (it equals the concept key or is one of the
\* synonyms), the returned list contains the concept key and every synonym of the
\* group that has at least 3 characters, also when several groups are triggered.
C12_TriggeredGroupsReturned ==
  ePc = "done" =>
    LET words == TriggeredWords(RawTokens)
    IN \A w \in words : Len(w) >= 3 => w \in Range(eOut.val)

\* C12 as amended: the same whenever the returned list has fewer than 30 tokens;
\* a list of 30 tokens is the cut of a longer one and may lack words of triggered
\* groups. In every case each returned token is a raw token of the question or a
\* word of a triggered group.
C12_TriggeredGroupsReturnedBelowCap ==
  ePc = "done" =>
    LET raw == RawTokens
        words == TriggeredWords(raw)
    IN /\ \A i \in 1..Len(eOut.val) : eOut.val[i] \in Range(raw) \cup words
       /\ Len(eOut.val) < 30 => \A w \in words : Len(w) >= 3 => w \in Range(eOut.val)

\* A question that triggers two groups through synonyms only, below the cap.
C12_Witness ==
  /\ ePc = "done"
  /\ LET raw == RawTokens
     IN /\ Cardinality(TriggeredGroups(raw)) >= 2
        /\ \A n \in DOMAIN SYNONYMS : SYNONYMS[n].k \notin Range(raw)
        /\ Len(eOut.val) > Len(raw)
  /\ Len(eOut.val) < 30

(* ------------------------------------------------------------------ *)
(* Properties of bestMatches                                           *)
(* ------------------------------------------------------------------ *)

\* The place in the document of the section x of the list all.
PlaceIn(all, x) == CHOOSE n \in 1..Len(all) : all[n] = x

\* C13: the sections bestMatches returns are in order of non-increasing score, two
\* of them with the same score stand in their order in the document, and the first
\* has the highest score of all sections of the document.
C13_OrderedByScoreStable ==
  bPc = "done" =>
    LET r == bOut.val
    IN /\ \A i \in 1..Len(r) : r[i] \in Range(bMapped)
       /\ \A i \in 1..(Len(r) - 1) : r[i].score >= r[i + 1].score
       /\ \A i, j \in 1..Len(r) :
            i < j /\ r[i].score = r[j].score => PlaceIn(bMapped, r[i]) < PlaceIn(bMapped, r[j])
       /\ r # <<>> => \A n \in 1..Len(bMapped) : bMapped[n].score <= r[1].score

\* Three sections returned, the best of them not the first of the document, the
\* other two with the same score.
C13_Witness ==
  /\ bPc = "done"
  /\ Len(bOut.val) = 3
  /\ bOut.val[1].score > bOut.val[2].score
  /\ bOut.val[2].score = bOut.val[3].score
  /\ PlaceIn(bMapped, bOut.val[1]) > 1

\* A letter, a digit or an underscore, those outside ASCII included.
IsLetterDigitOrUnderscore(c) == IsLetterOrDigit(c) \/ c = "_"

\* The token t stands at position i of hay with no word character on either side.
\* With ascii, the word characters are a-z, A-Z, 0-9 and _ (the \w of a regular
\* expression); without, the letters outside ASCII are word characters too.
StandsAloneAt(hay, t, i, ascii) ==
  LET isWord(c) == IF ascii THEN IsWordChar(c) ELSE IsLetterDigitOrUnderscore(c)
  IN /\ i + Len(t) - 1 <= Len(hay)
     /\ \A k \in 1..Len(t) : hay[i + k - 1] = t[k]
     /\ i = 1 \/ ~isWord(hay[i - 1])
     /\ i + Len(t) > Len(hay) \/ ~isWord(hay[i + Len(t)])

\* The number of places of hay where the token t stands alone.
WordCount(hay, t, ascii) ==
  Cardinality({i \in 1..Len(hay) : StandsAloneAt(hay, t, i, ascii)})

\* The sum of the word counts of the tokens of the set ts.
RECURSIVE SumWordCounts(_, _, _)
SumWordCounts(hay, ts, ascii) ==
  IF ts = {} THEN 0
  ELSE LET t == CHOOSE t \in ts : TRUE
       IN WordCount(hay, t, ascii) + SumWordCounts(hay, ts \ {t}, ascii)

\* Some token of the token set stands alone somewhere in some section.
SomeTokenOccurs(ascii) ==
  \E n \in 1..Len(bMapped) :
    SumWordCounts(Hay(bMapped[n]), Range(bTokens), ascii) > 0

\* C14 as stated: every returned section has an integer score of at least 1, the
\* result is empty exactly when no token of the expanded token set occurs as a
\* whole word in any section (an empty token set included), and the call returns.
C14_EmptyIffNoWholeWord ==
  bPc = "done" =>
    /\ ~bOut.threw
    /\ \A i \in 1..Len(bOut.val) : bOut.val[i].score \in Nat /\ bOut.val[i].score >= 1
    /\ bOut.val = <<>> <=> ~SomeTokenOccurs(FALSE)

\* C14 as amended: every returned section has an integer score of at least 1 and
\* the call returns; for a count N of at least 1, or omitted, the result is empty
\* exactly when no token of the expanded token set occurs in any section between
\* word boundaries of the regular expression, where only a-z, A-Z, 0-9 and _ are
\* word characters and a letter outside ASCII delimits a word; for N = 0 the
\* result is always empty.
C14_EmptyIffNoBoundedMatch ==
  bPc = "done" =>
    /\ ~bOut.threw
    /\ \A i \in 1..Len(bOut.val) : bOut.val[i].score \in Nat /\ bOut.val[i].score >= 1
    /\ IF TopOf(bTop) >= 1
       THEN bOut.val = <<>> <=> ~SomeTokenOccurs(TRUE)
       ELSE bOut.val = <<>>

\* A document of several sections and a question with tokens, none of which
\* occurs in the document.
C14_Witness ==
  /\ bPc = "done"
  /\ bOut.val = <<>>
  /\ bTokens # <<>>
  /\ Len(bMapped) >= 2
  /\ TopOf(bTop) >= 1

\* The sections of the document with the scores expected: for each section the sum,
\* over the tokens of the token set, of the places where the token stands alone in
\* the lower-cased heading, newline and body.
ExpectedScores(ascii) ==
  [n \in 1..Len(bMapped) |-> SumWordCounts(Hay(bMapped[n]), Range(bTokens), ascii)]

\* C15 as stated: the score of every section is the sum, over the distinct tokens
\* of the token set, of the number of whole-word occurrences of the token in the
\* lower-cased heading plus body; an occurrence inside a longer word counts zero.
C15_ScoreCountsWholeWords ==
  bPc = "done" =>
    LET expected == ExpectedScores(FALSE)
    IN /\ \A n \in 1..Len(bMapped) : bMapped[n].score = expected[n]
       /\ \A n \in 1..Len(bMapped) : expected[n] > 0 <=> bMapped[n] \in Range(bScored)

\* C15 as amended: the same with a whole word delimited by the word boundaries of
\* the regular expression: a-z, A-Z, 0-9 and _ are word characters, every other
\* character, a letter outside ASCII included, delimits a word, so 'cat' after an
\* accented letter counts as an occurrence.
C15_ScoreCountsBoundedMatches ==
  bPc = "done" =>
    LET expected == ExpectedScores(TRUE)
    IN /\ \A n \in 1..Len(bMapped) : bMapped[n].score = expected[n]
       /\ \A n \in 1..Len(bMapped) : expected[n] > 0 <=> bMapped[n] \in Range(bScored)

\* The question 'cat' against the section that holds 'category', 'cat', 'cat'
\* after an accented letter and 'cat_x': two occurrences are counted.
C15_Witness ==
  /\ bPc = "done"
  /\ bTokens = <<<<"c", "a", "t">>>>
  /\ \E n \in 1..Len(bScored) :
       /\ bScored[n].score = 2
       /\ Len(bScored[n].text) = 24

\* The places in the document of the sections with a score above 0.
Matching == {n \in 1..Len(bMapped) : bMapped[n].score > 0}

\* The rank of the section at place n among the matching ones: behind those of a
\* higher score and those of the same score that stand before it.
RankOf(n) ==
  1 + Cardinality({m \in Matching :
                     \/ bMapped[m].score > bMapped[n].score
                     \/ bMapped[m].score = bMapped[n].score /\ m < n})

\* C16: for a count N >= 0 (3 when omitted) bestMatches returns the first N
\* sections of the list of the matching sections in score order, all of them when
\* there are fewer; no section left out has a higher score than a returned one.
C16_FirstNOfRanking ==
  bPc = "done" =>
    LET r == bOut.val
        N == IF bTop = JsUndefined THEN 3 ELSE ParseInt(bTop.v).n
        matching == Matching
    IN /\ Len(r) = IF N < Cardinality(matching) THEN N ELSE Cardinality(matching)
       /\ \A p \in 1..Len(r) : \E n \in matching : RankOf(n) = p /\ r[p] = bMapped[n]
       /\ \A n \in matching :
            bMapped[n] \notin Range(r) => \A p \in 1..Len(r) : bMapped[n].score <= r[p].score

\* Four matching sections and the count omitted: three are returned.
C16_Witness ==
  /\ bPc = "done"
  /\ bTop = JsUndefined
  /\ Len(bOut.val) = 3
  /\ Cardinality(Matching) = 4

\* The places of text that hold no white space, in order.
NonSpacePlaces(text) ==
  LET holdsInk(i) == ~IsSpace(text[i])
  IN SelectSeq([i \in 1..Len(text) |-> i], holdsInk)

\* For the places at of the characters that are no white space, the place of each
\* of them in the collapsed text: one further for every earlier one that white
\* space separates from its predecessor.
PlacesCollapsed(at) ==
  [k \in 1..Len(at) |-> k + Cardinality({j \in 2..k : at[j] > at[j - 1] + 1})]

\* The characters of text at the places at laid out at the places place, a space
\* wherever none of them lands.
LaidOut(text, at, place) ==
  [i \in 1..(IF at = <<>> THEN 0 ELSE place[Len(at)]) |->
     IF \E k \in 1..Len(at) : place[k] = i
     THEN text[at[CHOOSE k \in 1..Len(at) : place[k] = i]]
     ELSE " "]

\* The text trimmed and with every run of white space collapsed to one space: its
\* characters that are no white space, in order, with one space between two of
\* them that white space separates in the text.
TrimmedCollapsed(text) ==
  CHOOSE s \in {LaidOut(text, at, place) :
                  at \in {NonSpacePlaces(text)},
                  place \in {PlacesCollapsed(NonSpacePlaces(text))}} : TRUE

\* C17: for a string, null or undefined text and a limit L >= 0 (900 when omitted)
\* excerpt returns the trimmed, white-space-collapsed text unchanged when its
\* length is at most L, and otherwise its first L characters followed by '...',
\* L + 3 characters in all; the result is never longer than L + 3, and null,
\* undefined or the empty string gives the empty string.
C17_UnchangedOrCutWithEllipsis ==
  xPc = "done" =>
    LET L == IF xLimit = JsUndefined THEN 900 ELSE ParseInt(xLimit.v).n
        out == xOut.val
    IN \A s \in {TrimmedCollapsed(IF xText.t = "string" THEN xText.v ELSE <<>>)} :
       /\ ~xOut.threw
       /\ Len(s) <= L => out = s
       /\ Len(s) > L =>
            /\ Len(out) = L + 3
            /\ SubSeq(out, 1, L) = SubSeq(s, 1, L)
            /\ SubSeq(out, L + 1, L + 3) = <<".", ".", ".">>
       /\ Len(out) <= L + 3
       /\ xText \in {JsNull, JsUndefined, JsString(<<>>)} => out = <<>>

\* The scenario of the specification: a text of 1000 characters cut at 100.
C17_Witness ==
  /\ xPc = "done"
  /\ xText.t = "string"
  /\ Len(xText.v) = 1000
  /\ xLimit = JsNumber(100)
  /\ Len(xOut.val) = 103
  /\ SubSeq(xOut.val, 101, 103) = <<".", ".", ".">>

\* The question is empty or white space only.
BlankQuestion == \A i \in 1..Len(cQuestion) : IsSpace(cQuestion[i])

\* An event of the given name is among the events stored or sent.
Recorded(name) ==
  \/ \E i \in 1..Len(cEvents) : cEvents[i].event = name
  \/ \E i \in 1..Len(cSyncs) : cSyncs[i].event = name

\* C18: handleChat called with an empty or white-space-only question returns null
\* and does nothing else, in either mode: no analytics event is stored or sent,
\* bestMatches is not called and no request goes to the AI function.
C18_BlankQuestionIsNoOp ==
  BlankQuestion =>
    /\ cPc \in {"ready", "done"}
    /\ cPc = "done" => cReply = JsNull
    /\ cEvents = <<>>
    /\ cSyncs = <<>>
    /\ cRanked = 0
    /\ cHits = <<>>
    /\ cAsk = <<>>

\* The call with a tab and a newline for a question, in AI Explain mode, has
\* returned.
C18_Witness ==
  /\ cPc = "done"
  /\ cQuestion = <<"\t", "\n">>
  /\ cMode = "ai"
  /\ cReply = JsNull

\* C19: when bestMatches has returned no section for a question that is not blank,
\* handleChat has returned the message that it could not locate that, with the
\* keywords to try, in Quick and in AI Explain mode alike; no request has gone to
\* the AI function and no ai_query event is recorded.
C19_NoHitsGiveNotFound ==
  ~BlankQuestion /\ cRanked > 0 /\ cHits = <<>> =>
    /\ cPc = "done"
    /\ cReply = [role |-> "ai", text |-> JsString(NotFoundText)]
    /\ cAsk = <<>>
    /\ ~Recorded("ai_query")
    /\ Recorded("search")

\* A loaded document, a question none of whose tokens occurs in it, AI Explain
\* mode: the call has returned the message.
C19_Witness ==
  /\ cPc = "done"
  /\ cMode = "ai"
  /\ cText # <<>>
  /\ cQuestion = <<"x", "y", "z", "z", "y">>
  /\ cRanked = 1
  /\ cReply.text = JsString(NotFoundText)

\* The excerpt of the text at the default limit, from the collapsed text.
ExpectedExcerpt(text) ==
  LET s == TrimmedCollapsed(text)
  IN IF Len(s) > 900 THEN SubSeq(s, 1, 900) \o <<".", ".", ".">> ELSE s

\* C20: in Quick mode no request goes to the AI function and no ai_query event is
\* recorded; with at least one hit the call returns the message that quotes the
\* heading and the excerpt, of at most 903 characters, of the first hit, which is
\* a section of the document and has the highest score of all its sections.
C20_QuickQuotesBestSection ==
  cMode = "quick" =>
    /\ cPc \in {"ready", "done"}
    /\ cAsk = <<>>
    /\ ~Recorded("ai_query")
    /\ cPc = "done" /\ cHits # <<>> =>
         LET best == cHits[1]
             sections == parseAgreement(JsString(cText))
             tokens == Range(expandTokens(JsString(cQuestion)).val)
         IN \A quoted \in {ExpectedExcerpt(best.text)} :
              /\ Len(quoted) <= 903
              /\ cReply = [role |-> "ai",
                           text |-> JsString(QuickPrefix \o best.heading \o QuickMiddle
                                               \o quoted \o QuickSuffix)]
              /\ \E n \in 1..Len(sections) :
                   sections[n].heading = best.heading /\ sections[n].text = best.text
              /\ \A n \in 1..Len(sections) :
                   SumWordCounts(Hay(sections[n]), tokens, TRUE) <= best.score

\* Quick mode, two hits, the better one the second section of the document.
C20_Witness ==
  /\ cPc = "done"
  /\ cMode = "quick"
  /\ Len(cHits) >= 2
  /\ cHits[1].heading = <<"2", " ", "b">>
  /\ cHits[1].score > cHits[2].score
  /\ cReply.role = "ai"

(* ------------------------------------------------------------------ *)
(* Properties of concurrent loadAgreement calls                        *)
(* ------------------------------------------------------------------ *)

\* The step is the successful end of the call p: it has the fetched text.
LoadsNow(p) ==
  /\ pc[p] = "body"
  /\ pc'[p] = "done"
  /\ result'[p].status = "loaded"

\* The step is the failure of the call p.
FailsNow(p) == caught[p] = "none" /\ caught'[p] # "none"

C21_FailuresGiveUnavailable ==
  cMode = "ai" /\ cHits # <<>> /\ cPc = "done" =>
    /\ cReply.role = "ai"
    /\ cReply.text.t = "string"
    /\ cReply.text.v # <<>>
    /\ cCaught # "none" => cReply.text = JsString(UnavailableText)

(* ------------------------------------------------------------------ *)
(* Properties of the rate limiter of the ask function                  *)
(* ------------------------------------------------------------------ *)

\* The number of allowed requests of the identity ip made at time t or later.
AllowedSince(ip, t) ==
  Cardinality({i \in DOMAIN rAllowedAt[ip] : rAllowedAt[ip][i] >= t})

\* The stored count of every identity with a record is between 1 and 20.
CountsInRange ==
  \A ip \in Ips :
    rateLimitMap[ip] # NoRecord => rateLimitMap[ip].count \in 1..20

\* What a rate check of the identity ip does, told from the requests allowed since
\* the start of its window: used is their number, 0 when the identity has no
\* window or its window is over.
ChecksAsCounted(ip) ==
  LET record == rateLimitMap[ip]
      inWindow == record # NoRecord /\ clock - record.windowStart <= 60 * 60 * 1000
      used == IF inWindow THEN AllowedSince(ip, record.windowStart) ELSE 0
      out == rLast'[ip]
  IN /\ out.at = clock
     /\ out.remaining >= 0
     /\ used < 20 =>
          /\ out.allowed
          /\ out.status = 0
          /\ out.remaining = 20 - (used + 1)
          /\ rateLimitMap'[ip].count = used + 1
     /\ used >= 20 =>
          /\ ~out.allowed
          /\ out.status = 429
          /\ out.remaining = 0
          /\ out.resetIn.t = "number"
          /\ out.retryAfter = JsString(out.resetIn.v)
          /\ rateLimitMap'[ip] = rateLimitMap[ip]
     /\ \A other \in Ips \ {ip} :
          /\ rateLimitMap'[other] = rateLimitMap[other]
          /\ rAllowedAt'[other] = rAllowedAt[other]
          /\ rLast'[other] = rLast[other]

\* C22: counting from the start of an identity's window, the first 20 requests are
\* allowed, with remaining = 20 minus their count and never negative, and every
\* further request in the window is answered 429 with Retry-After; the stored
\* count of an identity is always between 1 and 20; a request of one identity
\* changes nothing of the record and the outcomes of another.
C22_FirstTwentyAllowed ==
  /\ []CountsInRange
  /\ [][\A ip \in Ips : rCalls' = Append(rCalls, ip) => ChecksAsCounted(ip)]_vars

\* The identity a had its twentieth request allowed and its next one in the same
\* window answered 429, while b has made a request as well.
C22_Witness ==
  /\ rPrev["a"].at >= 0
  /\ rPrev["a"].allowed
  /\ rPrev["a"].remaining = 0
  /\ rLast["a"].status = 429
  /\ rateLimitMap["a"].count = 20
  /\ "b" \in Range(rCalls)

\* The number of allowed requests of the identity ip in the hour that begins with
\* its i-th allowed request.
AllowedInHourFrom(ip, i) ==
  LET at == rAllowedAt[ip]
  IN Cardinality({j \in DOMAIN at : at[i] <= at[j] /\ at[j] < at[i] + 60 * 60 * 1000})

\* C28 as stated: no identity has more than 20 requests allowed within any
\* interval of one hour, wherever the interval begins.
C28_QuotaInEverySlidingHour ==
  \A ip \in Ips :
    \A i \in DOMAIN rAllowedAt[ip] : AllowedInHourFrom(ip, i) <= 20

\* C28 as amended: no identity has more than 20 requests allowed within its
\* window, which runs from windowStart to one hour later inclusive, and the stored
\* count is their number. (An hour that begins elsewhere can hold more than 20:
\* the allowed requests of two windows.)
C28_QuotaInWindowOnly ==
  \A ip \in Ips :
    rateLimitMap[ip] # NoRecord =>
         LET start == rateLimitMap[ip].windowStart
         IN /\ AllowedSince(ip, start) = rateLimitMap[ip].count
            /\ AllowedSince(ip, start) <= 20
            /\ AllowedSince(ip, start + 60 * 60 * 1000 + 1) = 0

\* The identity a is in a later window and has had more than 20 requests allowed
\* within less than an hour.
C28_Witness ==
  /\ rateLimitMap["a"].windowStart > 0
  /\ \E i \in DOMAIN rAllowedAt["a"] : AllowedInHourFrom("a", i) > 20

\* C30 as stated: a rejected request is told a positive number of seconds in
\* resetIn, and the request the same identity makes that many seconds after the
\* rejection, with no request of its own in between, is allowed.
C30_RetryAfterResetInAllowed ==
  \A ip \in Ips :
    /\ rLast[ip].status = 429 => ParseInt(rLast[ip].resetIn.v).n > 0
    /\ /\ rPrev[ip].status = 429
       /\ rLast[ip].at = rPrev[ip].at + 1000 * ParseInt(rPrev[ip].resetIn.v).n
       => rLast[ip].allowed


(* ------------------------------------------------------------------ *)
(* Properties of getCacheKey                                           *)
(* ------------------------------------------------------------------ *)

NormalizedQuestion(r) == Trim(ToLowerCase(r.question))

HeadingSet(r) == {r.excerpts[i].heading : i \in 1..Len(r.excerpts)}

\* C24: two requests get the same cache key exactly when their questions are
\* equal after lower-casing and trimming and their excerpts have the same set of
\* headings, whatever the order and the text of the excerpts.
C24_KeyIsQuestionAndHeadingSet ==
  kPc = "done" =>
    ((kKeys[1] = kKeys[2]) <=>
       (/\ NormalizedQuestion(kFirst) = NormalizedQuestion(kSecond)
        /\ HeadingSet(kFirst) = HeadingSet(kSecond)))

(* ------------------------------------------------------------------ *)
(* Properties of the sliding-log limiters                              *)
(* ------------------------------------------------------------------ *)

\* The quota and the window of the limiter deployed, as the functions state them.
QuotaOf(name) == IF name = "tenMinutes" THEN 12 ELSE 20

WindowOf(name) == IF name = "tenMinutes" THEN 600000 ELSE 3600000

\* The allowed requests of ip in the window of the limiter that ends at t.
AllowedInWindowTo(ip, t) ==
  {i \in DOMAIN sAllowedAt[ip] :
     /\ sAllowedAt[ip][i] > t - WindowOf(sLimiter.name)
     /\ sAllowedAt[ip][i] <= t}

\* C29: with a sliding-log limiter, however the requests interleave, an identity
\* has at most maxReq requests allowed in the window that ends at any time, and
\* its stored list never holds more than maxReq times.
C29_SlidingQuota ==
  \A ip \in Ips :
    /\ Len(rateLimit[ip]) <= QuotaOf(sLimiter.name)
    /\ \A t \in Range(sAllowedAt[ip]) \cup {clock} :
         Cardinality(AllowedInWindowTo(ip, t)) <= QuotaOf(sLimiter.name)

\* An identity with a full window was rejected while a request of the other one
\* was pending, and has had more than maxReq requests allowed over time.
C29_Witness ==
  \E ip \in Ips :
    /\ Len(sAllowedAt[ip]) > QuotaOf(sLimiter.name)
    /\ Len(rateLimit[ip]) = QuotaOf(sLimiter.name)
    /\ sStatus[ip] = 429
    /\ sPending > 0

(* ------------------------------------------------------------------ *)
(* Properties of the response cache                                    *)
(* ------------------------------------------------------------------ *)

\* The step answers the request of the slot q from the cache.
ServesFromCache(q) ==
  /\ hReq[q].pc = "body"
  /\ hReq'[q].pc = "idle"
  /\ hResp'.cached

\* The answers of the model for the key that arrived less than an hour before t.
AnswersWithinHour(cacheKey, t) ==
  {g \in hAnswers : g.key = cacheKey /\ g.at <= t /\ t - g.at < 60 * 60 * 1000}

CachedAnswersAreYoung ==
  hResp.cached =>
    /\ hResp.status = 200
    /\ hResp.answer \in {g.answer : g \in AnswersWithinHour(hResp.cacheKey, hResp.at)}
    /\ ~hResp.called

\* C23: an answer served from the response cache is an answer the model gave
\* for the same key less than an hour before; the entry served is younger than
\* an hour, serving it leaves the cache as it is, and the request served has made
\* no call to the model.
C23_CacheServesYoungAnswers ==
  /\ []CachedAnswersAreYoung
  /\ [][\A q \in Slots :
          ServesFromCache(q) =>
            /\ responseCache' = responseCache
            /\ hAnswers' = hAnswers
            /\ \E i \in 1..Len(responseCache) :
                 /\ responseCache[i].key = hResp'.cacheKey
                 /\ responseCache[i].answer = hResp'.answer
                 /\ clock - responseCache[i].timestamp < 60 * 60 * 1000]_vars

\* A request was answered from the cache with an answer the model gave to an
\* earlier request one millisecond less than an hour before.
C23_Witness ==
  /\ hResp.cached
  /\ hCalls = 2
  /\ \E g \in hAnswers :
       /\ g.key = hResp.cacheKey
       /\ g.answer = hResp.answer
       /\ g.at > 0
       /\ hResp.at - g.at = 60 * 60 * 1000 - 1

(* ------------------------------------------------------------------ *)
(* Properties of the excerpts forwarded to the model                   *)
(* ------------------------------------------------------------------ *)

\* The most excerpts a function forwards, and the longest text of one.
CountBound == IF fHandler = "analytics.js" THEN 5 ELSE 3

TextBound ==
  CASE fHandler = "handleChat" -> 1200 + 3
    [] fHandler = "analytics.js" -> 1500
    [] fHandler = "part_000" -> 1400
    [] OTHER -> 1600

\* C25: whatever the number and the size of the excerpts that come in, a function
\* forwards the first 3 of them (5 for the handler of analytics.js), in their
\* order, each text cut to the bound of the function: 1200 + 3 characters for
\* handleChat, 1400, 1500 or 1600 for a handler.
C25_ForwardedExcerptsBounded ==
  fPc = "done" =>
    /\ Len(fForwarded) <= CountBound
    /\ Len(fForwarded) <= Len(fIncoming)
    /\ Len(fIncoming) <= CountBound => Len(fForwarded) = Len(fIncoming)
    /\ \A i \in 1..Len(fForwarded) :
         /\ fForwarded[i].heading = fIncoming[i].heading
         /\ Len(fForwarded[i].text) <= TextBound

(* ------------------------------------------------------------------ *)
(* Properties of bestMatches as a function                             *)
(* ------------------------------------------------------------------ *)

\* The last call returned what the first call with its arguments returned.
SameAsFirst ==
  \A e \in yFirst :
    e.in = yIn => e.threw = yThrew /\ e.val = ValueOf(yHeap, yOut)

\* The sections parsed in the last call are as parseAgreement made them.
SectionsUntouched ==
  yCalls > 0 =>
    LET parsed == parseAgreement(yIn[1])
    IN /\ Len(yChunks) = Len(parsed)
       /\ \A i \in 1..Len(yChunks) :
            yHeap[yChunks[i]] =
              [heading |-> parsed[i].heading, text |-> parsed[i].text,
               scored |-> FALSE, score |-> 0]

\* The objects returned were made by the last call and are no parsed sections.
ReturnedAreFresh ==
  \A i \in 1..Len(yOut) :
    /\ yOut[i] > yBase
    /\ yOut[i] \notin Range(yChunks)
    /\ \A j \in 1..Len(yOut) : yOut[j] = yOut[i] => j = i

\* C27: a call of bestMatches returns what the first call with the same text,
\* question and N returned, whatever was called in between; it changes neither
\* the sections parsed nor the synonym table nor any object of an earlier call,
\* and the scored sections it returns are new objects.
C27_BestMatchesIsPure ==
  /\ [](SameAsFirst /\ SectionsUntouched /\ ReturnedAreFresh /\ ySynonyms = SYNONYMS)
  /\ [][\A o \in 1..Len(yHeap) : yHeap'[o] = yHeap[o]]_vars

\* The third call has the arguments of the first, another call lies between, and
\* it has returned scored sections.
C27_Witness ==
  /\ yCalls = 3
  /\ yOut # <<>>
  /\ \E e \in yFirst : e.in = yIn /\ e.call = 1
  /\ \E e \in yFirst : e.in # yIn /\ e.call = 2 /\ e.val # <<>>

(* ------------------------------------------------------------------ *)
(* Properties of rejected requests at the limiters                     *)
(* ------------------------------------------------------------------ *)

\* The allowed requests of an identity at the times from `from` on.
AllowedFrom(times, from) == Cardinality({i \in DOMAIN times : times[i] >= from})

\* A step in which the fixed-window limiter rejects a request of ip.
RejectedFixed(ip) == rCalls' = Append(rCalls, ip) /\ rLast'[ip].status = 429

\* A step in which a sliding-log limiter rejects a request.
RejectedSliding == sCalls' = sCalls + 1 /\ sAllowedAt' = sAllowedAt

RejectionKeepsRecord ==
  /\ \A ip \in Ips : RejectedFixed(ip) => rateLimitMap' = rateLimitMap
  /\ RejectedSliding => rateLimit' = rateLimit

\* A rejection by the fixed window at the time t is due to RATE_LIMIT requests
\* allowed at t - RATE_WINDOW or later.
FixedBlockedByAllowed ==
  \A ip \in Ips :
    rLast[ip].status = 429 =>
      AllowedFrom(rAllowedAt[ip], rLast[ip].at - 3600000) >= 20

\* An identity a sliding log would reject now has its quota of allowed requests
\* later than now less the window.
SlidingBlockedByAllowed ==
  \A ip \in Ips :
    (sLimiter.name # "none" /\ ~slidingLog(rateLimit[ip], clock, sLimiter).allowed) =>
      AllowedFrom(sAllowedAt[ip], clock - sLimiter.windowMs + 1) >= sLimiter.maxReq

HeadingLines == {h \in 1..Len(SourceLines) : IsHeadingLine(h)}

\* The sections of the result under the heading text.
SectionsUnder(text) == Cardinality({c \in 1..Len(pOut) : pOut[c].heading = text})

\* The spans with a line that is not whitespace only which the heading text
\* opens; the span that opens the document counts under INTRODUCTION.
KeptUnder(text) ==
  Cardinality({h \in KeptSpans :
                 IF h = 0 THEN text = INTRODUCTION ELSE Trim(SourceLines[h]) = text})

\* C32: unless the result is the fallback section, every section returned has a
\* body with a character that is not whitespace, and a heading line followed
\* directly by another heading line, only by blank lines or by the end of the
\* document gives no section: under each heading text the result has as many
\* sections as heading lines of that text are followed by a body, none when
\* there is no such line.
C32_EmptySectionsDropped ==
  pPc = "done" /\ ~IsFallback =>
    /\ \A c \in 1..Len(pOut) : Trim(pOut[c].text) # <<>>
    /\ \A h \in HeadingLines :
         SectionsUnder(Trim(SourceLines[h])) = KeptUnder(Trim(SourceLines[h]))

\* A document with a section, and with a heading line without body whose
\* heading is not in the result.
C32_Witness ==
  /\ pPc = "done"
  /\ ~IsFallback
  /\ \E h \in HeadingLines :
       /\ h \notin KeptSpans
       /\ SectionsUnder(Trim(SourceLines[h])) = 0
       /\ h < Len(SourceLines) /\ IsHeadingLine(h + 1) /\ (h + 1) \in KeptSpans

(* ------------------------------------------------------------------ *)
(* Properties of the headings INTRODUCTION and AGREEMENT               *)
(* ------------------------------------------------------------------ *)

\* The lines before the first heading line.
LeadLines == {i \in NonHeadingLines : SpanStart(i) = 0}

\* Some line before the first heading line is not whitespace only.
LeadHasText == \E i \in LeadLines : Trim(SourceLines[i]) # <<>>

LeadSection == [heading |-> INTRODUCTION, text |-> JoinLines(1, LeadLines)]

\* C33: when a line before the first heading line is not whitespace only, the
\* first section has the heading INTRODUCTION and the lines before the first
\* heading line, each ended by a line feed, as its body; a document without a
\* heading line and with a character that is not whitespace gives this section
\* alone, its body all the lines of the document; and a section with the
\* heading AGREEMENT is either the fallback result or the section of a heading
\* line that reads AGREEMENT.
C33_IntroductionAndAgreement ==
  pPc = "done" =>
    /\ LeadHasText => pOut[1] = LeadSection
    /\ (HeadingLines = {} /\ Trim(SourceText) # <<>>) =>
         pOut = <<[heading |-> INTRODUCTION, text |-> JoinLines(1, 1..Len(SourceLines))]>>
    /\ ~IsFallback => SectionsUnder(AGREEMENT) = KeptUnder(AGREEMENT)

\* A document with text before its first heading line and a section after it.
C33_Witness ==
  /\ pPc = "done"
  /\ HeadingLines # {}
  /\ LeadHasText
  /\ Len(pOut) = 2
  /\ pOut[1] = LeadSection
  /\ SectionsUnder(AGREEMENT) = 0

\* C33 as stated: every non-empty document without a heading line gives the
\* section INTRODUCTION, and the heading AGREEMENT is in the fallback result
\* only.
C33_AgreementOnlyAsFallback ==
  pPc = "done" =>
    /\ LeadHasText => pOut[1] = LeadSection
    /\ (HeadingLines = {} /\ SourceText # <<>>) => pOut[1].heading = INTRODUCTION
    /\ SectionsUnder(AGREEMENT) > 0 => IsFallback

(* ------------------------------------------------------------------ *)
(* Properties of the writes to the response cache                      *)
(* ------------------------------------------------------------------ *)

CacheEntries(cache) == {cache[i] : i \in 1..Len(cache)}

\* The entries the step creates, replaces or refreshes, as they are after it.
CacheWritten == CacheEntries(responseCache') \ CacheEntries(responseCache)

\* The entries the step removes: those whose key has no entry after it.
CacheRemoved ==
  {e \in CacheEntries(responseCache) \ CacheEntries(responseCache') :
     \A w \in CacheWritten : w.key # e.key}

\* The step ends a request whose call of the model returned an OK status and the
\* text the response carries.
EndsAnsweredCall ==
  /\ hResp'.status = 200 /\ hResp'.called /\ ~hResp'.cached
  /\ hResp'.answer # <<>>
  /\ \E q \in Slots : hReq[q].pc = "json" /\ hReq[q].ok /\ hReq'[q].pc = "idle"

OnlyAnswersWritten ==
  \A w \in CacheWritten :
    /\ EndsAnsweredCall
    /\ w = [key |-> hResp'.cacheKey, answer |-> hResp'.answer, timestamp |-> clock]

AnswersWithError == hResp'.status \in {400, 405, 429, 500, 502}

\* The entries of the cache once the step has stored its answer.
SizeWhenStored ==
  Len(responseCache) + (IF CacheHas(responseCache, hResp'.cacheKey) THEN 0 ELSE 1)

OnlyOldRemoved ==
  \A e \in CacheRemoved :
    /\ EndsAnsweredCall
    /\ SizeWhenStored > 100
    /\ clock - e.timestamp > 3600000

\* C34: an entry of the response cache is created, replaced or refreshed only by
\* the step that ends a request whose call of the model returned an OK status
\* and a non-empty text, and then it is the entry of that request's key with that
\* text and the time of the step; a step that answers 400, 405, 429, 500 or 502
\* leaves the cache as it is; and an entry is removed only by such a storing
\* step, when the cache then holds more than 100 entries, and only if it is
\* older than the hour of the TTL.
C34_CacheWrittenOnSuccessOnly ==
  [][\/ responseCache' = responseCache
     \/ ~AnswersWithError /\ OnlyAnswersWritten /\ OnlyOldRemoved]_vars

\* The cache held 100 entries of time 0; an answer stored later under a new key
\* made it 101 and the cleaning left that entry alone.
C34_Witness ==
  /\ Cardinality(hAnswers) > 100
  /\ hResp.status = 200 /\ hResp.called
  /\ responseCache = <<[key |-> hResp.cacheKey, answer |-> hResp.answer, timestamp |-> clock]>>

(* ------------------------------------------------------------------ *)
(* Properties of the stored events                                     *)
(* ------------------------------------------------------------------ *)

\* The last max elements of list.
LastOf(list, max) ==
  IF Len(list) > max THEN SubSeq(list, Len(list) - max + 1, Len(list)) ELSE list

\* The last n elements of an array written as runs, taken from its end.
RECURSIVE RunsLast(_, _)
RunsLast(runs, n) ==
  IF n <= 0 \/ runs = <<>> THEN <<>>
  ELSE LET last == runs[Len(runs)]
       IN IF last.count >= n THEN <<[last EXCEPT !.count = n]>>
          ELSE RunsLast(SubSeq(runs, 1, Len(runs) - 1), n - last.count) \o <<last>>

\* All events tracked in the browser in the order of the calls, as JSON holds them.
TrackedInBrowser ==
  Fill(FillerPayload, tPreload) \o [i \in 1..Len(tTracked) |-> JsonRoundTrip(tTracked[i])]

\* C35: the store of the analytics function holds at most 10000 events and the
\* item fw_analytics at most 500, and each is the list of the most recent events
\* in their order of arrival: the last 10000 (500) of all events that arrived.
C35_StoresCapped ==
  /\ RunsLen(analyticsStore) <= 10000
  /\ analyticsStore = RunsLast(aArrived, 10000)
  /\ Len(fwAnalytics.events) <= 500
  /\ fwAnalytics.events = LastOf(TrackedInBrowser, 500)

\* Both lists were at their cap; two events more have arrived at each, and the
\* two oldest have gone.
C35_Witness ==
  /\ aPreload = 10000
  /\ RunsLen(aArrived) = 10002
  /\ Len(analyticsStore) = 3
  /\ analyticsStore[1] = [item |-> FillerEvent, count |-> 9998]
  /\ analyticsStore[2].count = 1 /\ analyticsStore[3].count = 1
  /\ tPreload = 500 /\ Len(tTracked) >= 2
  /\ Len(fwAnalytics.events) = 500
  /\ fwAnalytics.events[498] = FillerPayload

(* ------------------------------------------------------------------ *)
(* Properties of track and its sync                                    *)
(* ------------------------------------------------------------------ *)

\* The step in which track calls _sync and fetch is called.
SyncStarts == Len(tSyncs') = Len(tSyncs) + 1

\* The step in which the fetch of a call of _sync settles and the call ends.
SyncEnds == Len(tSyncs') = Len(tSyncs) - 1

\* The item holds the payload as its last event.
StoredLast(item, payload) ==
  /\ item.present
  /\ item.events # <<>>
  /\ item.events[Len(item.events)] = JsonRoundTrip(payload)

\* C38: when track calls _sync the item fw_analytics already holds the event as
\* its last one, and track returns while the fetch is still unsettled, so that no
\* outcome of the fetch reaches its caller; and the end of a call of _sync,
\* whether its fetch resolved, resolved with an error status or rejected, leaves
\* the item as it is.
C38_StoredBeforeSync ==
  /\ [](tPc = "stored" => StoredLast(fwAnalytics, tPayload))
  /\ [][/\ SyncStarts =>
             /\ StoredLast(fwAnalytics, tSyncs'[Len(tSyncs')].payload)
             /\ fwAnalytics' = fwAnalytics
             /\ tSyncs'[Len(tSyncs')].stage = "sent"
             /\ tPc' = "idle"
        /\ SyncEnds => fwAnalytics' = fwAnalytics /\ tPc' = tPc /\ tTracked' = tTracked]_vars

\* Two events were tracked; the sync of one was rejected and that of the other
\* got an error status; the function has neither, the item holds both.
C38_Witness ==
  /\ tCalls = 2 /\ tPc = "idle" /\ tSyncs = <<>>
  /\ tSettled = {"failed", "rejected"}
  /\ analyticsStore = <<>>
  /\ tPreload = 0
  /\ fwAnalytics.events = <<JsonRoundTrip(tTracked[1]), JsonRoundTrip(tTracked[2])>>
  /\ tTracked[1] # tTracked[2]

(* ------------------------------------------------------------------ *)
(* Properties of debounce                                              *)
(* ------------------------------------------------------------------ *)

\* The calls made before the last invocation of fn, 0 when there was none.
ServedCalls == IF dInvoked = <<>> THEN 0 ELSE dInvoked[Len(dInvoked)].after

\* The call i is the last of its burst and the burst is over: the next call came
\* ms or more after it, or none has come and more than ms have passed.
EndsBurst(i) ==
  IF i < Len(dCalled) THEN dCalled[i + 1].at - dCalled[i].at >= dMs
  ELSE dTime - dCalled[i].at > dMs

\* C36: fn is invoked only by the timer of the most recent call, ms or more
\* after that call and with its arguments, and at most once for a call; calls
\* that are followed by another call before their timer has run are never
\* invoked; and the timer of the most recent call is pending exactly as long as
\* fn has not been invoked for it.
C36_DebounceInvokesLastCall ==
  /\ \A k \in 1..Len(dInvoked) :
       LET i == dInvoked[k].after
       IN /\ i \in 1..Len(dCalled)
          /\ dInvoked[k].at - dCalled[i].at >= dMs
          /\ dInvoked[k].args = dCalled[i].args
          /\ k > 1 => dInvoked[k - 1].after < i
  /\ Cardinality(dTimers) <= 1
  /\ dTimers # {} <=> ServedCalls < Len(dCalled)
  /\ \A x \in dTimers :
       x.id = dTimer /\ x.args = dCalled[Len(dCalled)].args
         /\ x.due = dCalled[Len(dCalled)].at + dMs

\* Three calls within a millisecond, ms being 2, and then one invocation, ms
\* after the last of them and with its arguments.
C36_Witness ==
  /\ dMs = 2
  /\ Len(dCalled) = 3
  /\ dCalled[3].at = dCalled[1].at + 1
  /\ dCalled[3].args # dCalled[1].args
  /\ dInvoked = <<[at |-> dCalled[3].at + 2, args |-> dCalled[3].args, after |-> 3]>>
  /\ dTimers = {}

\* C36 as stated: every burst that is over has led to exactly one invocation,
\* ms after its last call and with the arguments of that call.
C36_EveryBurstInvokedAtMs ==
  \A i \in 1..Len(dCalled) :
    EndsBurst(i) =>
      /\ Cardinality({k \in 1..Len(dInvoked) : dInvoked[k].after = i}) = 1
      /\ \A k \in 1..Len(dInvoked) :
           dInvoked[k].after = i =>
             dInvoked[k].at = dCalled[i].at + dMs /\ dInvoked[k].args = dCalled[i].args

(* ------------------------------------------------------------------ *)
(* Properties of the relayed upstream errors                           *)
(* ------------------------------------------------------------------ *)

Answered == uPc = "idle" /\ uUpstream # NoUpstream

ErrorAnswered == Answered /\ uResp.status \in {500, 502}

\* The functions whose error detail is cut: the protected and the hourly ask
\* function.
CutsDetail == uHandler \in {"protected", "hourly"}

\* Claim C39: every error response of a function that relays a failure of
\* Gemini or SendGrid carries at most 300 characters of the upstream error,
\* in its detail or in its error text, never the full upstream body or the
\* message of the exception.
C39_RelayedDiagnosticBounded ==
  ErrorAnswered => Len(uResp.detail) <= 300 /\ Len(uResp.error) <= 300

\* The bound of 300 characters where the detail is cut.
CutDetailBounded ==
  ErrorAnswered /\ CutsDetail => Len(uResp.detail) <= 300 /\ Len(uResp.error) <= 300

\* The notify function alone against the bound of 300 characters.
NotifyBounded ==
  ErrorAnswered /\ uHandler = "notify" => Len(uResp.detail) <= 300 /\ Len(uResp.error) <= 300

(* ------------------------------------------------------------------ *)
(* Properties of the service worker                                    *)
(* ------------------------------------------------------------------ *)

SwSeen == 1..Len(swEvents)

\* The events answered by this step.
SwAnsweredNow == {i \in SwSeen : swEvents'[i].answered /\ ~swEvents[i].answered}

\* The URLs whose cache entry this step has written.
SwWrittenNow == {url \in SwUrls : swCache'[url] # swCache[url]}

\* An answer is the response of the network whenever the fetch has resolved,
\* and otherwise, the fetch having rejected, what the cache held for the
\* request when it was asked, or the offline response.
SwAnswersNetworkFirst ==
  \A i \in SwAnsweredNow :
    LET e == swEvents'[i]
    IN /\ e.net \in {"resolved", "rejected"}
       /\ e.net = "resolved" => e.answer = e.fetched /\ e.fetched.body = Bodies[i + 1]
       /\ e.net = "rejected" =>
            e.answer = (IF swCache[e.url] # NoCached THEN swCache[e.url]
                        ELSE [status |-> 503,
                              body |-> "Offline - please reconnect to the internet."])

\* The cache is written with the response of a resolved fetch of status 200
\* for that URL, and with nothing else.
SwWritesOnlyOk ==
  \A url \in SwWrittenNow :
    \E i \in SwSeen :
      /\ swEvents[i].url = url
      /\ swEvents[i].method = "GET"
      /\ swEvents[i].net = "resolved"
      /\ swEvents[i].fetched.status = 200
      /\ swCache'[url] = swEvents[i].fetched

\* Requests the listener skips get no answer from the worker, and their URLs
\* have no cache entry.
SwSkippedUntouched ==
  /\ \A i \in SwSeen :
       (swEvents[i].method # "GET" \/ swEvents[i].url \in {ASK_URL, DOC_URL, GEMINI_URL}) =>
         ~swEvents[i].answered /\ swEvents[i].net = "none"
  /\ \A url \in {ASK_URL, DOC_URL, GEMINI_URL} : swCache[url] = NoCached

\* Claim C37: an intercepted GET request is answered network-first: with the
\* response of the network whenever the fetch resolves, which is put into the
\* cache only if its status is 200; with the cached response, or the 503
\* offline response when nothing is cached, only when the fetch rejects.
\* Requests that are not GET or that go to /.netlify/functions/,
\* docs.google.com or generativelanguage.googleapis.com are neither answered
\* from the cache nor written to it.
C37_NetworkFirst ==
  /\ []SwSkippedUntouched
  /\ [][SwAnswersNetworkFirst /\ SwWritesOnlyOk]_vars

\* A script was fetched with status 200 and cached; the next fetch of it
\* rejected and was answered with that cached response.
C37_Witness ==
  /\ Len(swEvents) = 2
  /\ swEvents[1].url = APP_URL /\ swEvents[2].url = APP_URL
  /\ swEvents[1].net = "resolved" /\ swEvents[1].fetched.status = 200
  /\ swEvents[1].stage = "done"
  /\ swCache[APP_URL] = swEvents[1].fetched
  /\ swEvents[2].net = "rejected" /\ swEvents[2].answered
  /\ swEvents[2].answer = swEvents[1].fetched

\* A rejected fetch with nothing cached is answered with the offline response.
SwOfflineSeen ==
  \E i \in SwSeen : swEvents[i].answered /\ swEvents[i].answer.status = 503

\* A response of status 404 was returned and not cached.
SwNotFoundSeen ==
  \E i \in SwSeen :
    /\ swEvents[i].answered /\ swEvents[i].answer.status = 404
    /\ swEvents[i].stage = "done" /\ swCache[swEvents[i].url] # swEvents[i].answer

(* ------------------------------------------------------------------ *)
(* Specifications                                                      *)
(* ------------------------------------------------------------------ *)

SideIdle == EventIdle /\ DebounceIdle /\ RelayIdle /\ SwIdle

ServerIdle ==
  /\ clock = 0 /\ sTicks = 0
  /\ RateIdle /\ KeyIdle /\ SlideIdle /\ HandlerIdle /\ ForwardIdle /\ PureIdle

SearchIdle == ExpandIdle /\ MatchIdle /\ ExcerptIdle /\ ChatIdle

DocIdle == LoadInit /\ NormIdle /\ ParseIdle /\ HeadIdle

Init == LoadInit /\ NormIdle /\ ParseIdle /\ HeadIdle /\ SearchIdle /\ ServerIdle /\ SideIdle

Next == LoadNext

\* Two concurrent loadAgreement calls over the document cache.
Spec == Init /\ [][Next]_vars

NormNext == CallNormalize \/ CallNormalizeAgain

InitNormalize == LoadInit /\ NormInit /\ ParseIdle /\ HeadIdle /\ SearchIdle /\ ServerIdle /\ SideIdle

\* normalize applied to every drawn argument, and once more to its result.
SpecNormalize == InitNormalize /\ [][NormNext]_vars

ParseNext == CallParseAgreement

InitParse == LoadInit /\ NormIdle /\ ParseInit /\ HeadIdle /\ SearchIdle /\ ServerIdle /\ SideIdle

\* parseAgreement applied to every drawn document.
SpecParse == InitParse /\ [][ParseNext]_vars

HeadNext == CallIsHeading

InitHeading == LoadInit /\ NormIdle /\ ParseIdle /\ HeadInit /\ SearchIdle /\ ServerIdle /\ SideIdle

\* isHeading applied to every drawn line.
SpecHeading == InitHeading /\ [][HeadNext]_vars

ExpandNext == CallExpandTokens

InitExpand == DocIdle /\ ExpandInit /\ MatchIdle /\ ExcerptIdle /\ ChatIdle /\ ServerIdle /\ SideIdle

\* expandTokens applied to every drawn question.
SpecExpand == InitExpand /\ [][ExpandNext]_vars

MatchNext == CallBestMatches

InitMatch == DocIdle /\ ExpandIdle /\ MatchInit /\ ExcerptIdle /\ ChatIdle /\ ServerIdle /\ SideIdle

\* bestMatches applied to every drawn document, question and count.
SpecMatch == InitMatch /\ [][MatchNext]_vars

ExcerptNext == CallExcerpt

InitExcerpt == DocIdle /\ ExpandIdle /\ MatchIdle /\ ExcerptInit /\ ChatIdle /\ ServerIdle /\ SideIdle

\* excerpt applied to every drawn text and limit.
SpecExcerpt == InitExcerpt /\ [][ExcerptNext]_vars

InitChat == DocIdle /\ ExpandIdle /\ MatchIdle /\ ExcerptIdle /\ ChatInit /\ ServerIdle /\ SideIdle

\* One call of handleChat, for every drawn document, question and mode.
SpecChat == InitChat /\ [][ChatNext]_vars

InitRate == DocIdle /\ SearchIdle /\ KeyIdle /\ SlideIdle /\ HandlerIdle /\ ForwardIdle /\ PureIdle /\ RateInit /\ SideIdle

\* Requests of two identities at the rate limiter of the ask function.
SpecRate == InitRate /\ [][RateNext]_vars


InitKey == DocIdle /\ SearchIdle /\ clock = 0 /\ sTicks = 0 /\ RateIdle /\ SlideIdle /\ HandlerIdle /\ ForwardIdle /\ PureIdle /\ KeyInit /\ SideIdle

\* getCacheKey applied to two requests.
SpecKey == InitKey /\ [][KeyNext]_vars

InitSlide == DocIdle /\ SearchIdle /\ RateIdle /\ KeyIdle /\ HandlerIdle /\ ForwardIdle /\ PureIdle /\ SlideInit /\ SideIdle

\* Requests of two identities at a sliding-log limiter.
SpecSlide == InitSlide /\ [][SlideNext]_vars

InitHandler == DocIdle /\ SearchIdle /\ KeyIdle /\ SlideIdle /\ ForwardIdle /\ PureIdle /\ HandlerInit /\ SideIdle

\* Concurrent requests at the handler of the ask function.
SpecHandler == InitHandler /\ [][HandlerNext]_vars

InitForward ==
  /\ SideIdle
  /\ DocIdle /\ SearchIdle /\ clock = 0 /\ sTicks = 0
  /\ RateIdle /\ KeyIdle /\ SlideIdle /\ HandlerIdle /\ PureIdle /\ ForwardInit

\* The excerpts each function forwards of the excerpts it receives.
SpecForward == InitForward /\ [][ForwardNext]_vars

InitPure ==
  /\ SideIdle
  /\ DocIdle /\ SearchIdle /\ clock = 0 /\ sTicks = 0
  /\ RateIdle /\ KeyIdle /\ SlideIdle /\ HandlerIdle /\ ForwardIdle /\ PureInit

\* Calls of bestMatches, one after the other, over the objects they make.
SpecPure == InitPure /\ [][PureNext]_vars

\* The function deployed: the ask function with its fixed window (no sliding
\* log in use) or one of the older ask functions with their sliding log.
FixedDeployed == sLimiter.name = "none"

InitLimit == InitRate \/ InitSlide

LimitNext ==
  \/ \E ip \in Ips : FixedDeployed /\ RateCheck(ip)
  \/ FixedDeployed /\ ServerTick
  \/ \E ip \in Ips : FixedDeployed /\ WaitRetryAfter(ip)
  \/ \E ip \in Ips : ~FixedDeployed /\ SlideRequest(ip)
  \/ ~FixedDeployed /\ SlideRespond
  \/ ~FixedDeployed /\ SlideTick

\* The limiter of each of the ask functions under repeated requests.
SpecLimit == InitLimit /\ [][LimitNext]_vars

InitEvents == DocIdle /\ SearchIdle /\ ServerIdle /\ EventInit /\ DebounceIdle /\ RelayIdle /\ SwIdle

\* Calls of track in the browser, their syncs and the analytics function.
SpecEvents == InitEvents /\ [][EventNext]_vars

InitDebounce == DocIdle /\ SearchIdle /\ ServerIdle /\ EventIdle /\ DebounceInit /\ RelayIdle /\ SwIdle

\* Calls of a debounced function and the timers of the event loop.
SpecDebounce == InitDebounce /\ [][DebounceNext]_vars

InitRelay == DocIdle /\ SearchIdle /\ ServerIdle /\ EventIdle /\ DebounceIdle /\ RelayInit /\ SwIdle

\* The functions that call Gemini or SendGrid, and what they return when the
\* upstream fails.
SpecRelay == InitRelay /\ [][RelayNext]_vars

InitWorker ==
  DocIdle /\ SearchIdle /\ ServerIdle /\ EventIdle /\ DebounceIdle /\ RelayIdle /\ SwInit

\* The fetch events of the page under the active service worker.
SpecWorker == InitWorker /\ [][SwNext]_vars
====
